---- MODULE Spec2Model ----
(***************************************************************************)
(* Cross-context orchestration of the tour extension: the Coordinator's    *)
(* GENERATE_TOUR handler, its send-to-tab helper with injection retry and  *)
(* the Model Gateway's bounded-retry HTTP call.                            *)
(*                                                                         *)
(* The repository holds three revisions of the Coordinator; the model      *)
(* carries all of them and picks one in Init:                              *)
(*   "async" unnamed/part_002 handleGenerateTour (promises), with          *)
(*           unnamed/part_003 generateTour and unnamed/part_005 callGemini *)
(*   "cb1"   background.js:2-129 listener (callbacks), with ai-service.js  *)
(*           generateTour and ai-providers/gemini.js callGemini            *)
(*   "cb2"   background.js:220-381 listener (callbacks, mock branch), with *)
(*           background.js:138-215 callGemini                              *)
(***************************************************************************)
EXTENDS Integers, Sequences, FiniteSets, TLC

Revisions == {"async", "cb1", "cb2"}

(***************************************************************************)
(* Inputs of the environment.                                              *)
(***************************************************************************)

\* Prompts a GENERATE_TOUR message can carry.
Prompts == {"show me how to sign up", "mock: demo", " MOCK: demo"}

\* prompt.trim().toLowerCase() of the prompts above.
TrimLower(p) ==
    CASE p = "show me how to sign up" -> "show me how to sign up"
      [] p = "mock: demo"             -> "mock: demo"
      [] p = " MOCK: demo"            -> "mock: demo"

\* s.startsWith('mock:') on trimmed, lower-cased prompts.
StartsWithMock(s) == s \in {"mock: demo"}

\* Tab ids chrome.tabs.query can resolve; NoTab stands for no tab / no id.
Tabs == {1, 2}
NoTab == 0

\* chrome.runtime.lastError / rejection messages of chrome.tabs.sendMessage.
SendErrors ==
    {"Could not establish connection.", "Receiving end does not exist.",
     "The message port closed before a response was received."}
SendOutcomes == {"ok"} \cup SendErrors

\* Rejection messages of chrome.scripting.executeScript.
InjectErrors == {"Cannot access contents of the page."}
InjectOutcomes == {"ok"} \cup InjectErrors

\* String.prototype.includes on the messages above: the pairs
\* <<message, needle>> for which message.includes(needle) is true.
SubstringFacts ==
    {<<"Could not establish connection.", "Could not establish connection">>,
     <<"Receiving end does not exist.", "Receiving end does not exist">>,
     <<"https://example.com/signup", "example.com">>,
     <<"https://example.com/signup", "example.com/signup">>,
     <<"https://other.org/", "other.org">>}
Includes(s, needle) == <<s, needle>> \in SubstringFacts

\* HTTP outcomes of one fetch: a network-level failure, or a response with
\* a status and a body.  Body "text" carries generated text; body "notext"
\* makes the success path throw inside the try block (no generated text in
\* part_005 / gemini.js, resp.json() rejecting in background.js).
Statuses == {200, 400, 500, 503}

\* Bodies of a 200 response: generated text that is a fenced array of steps,
\* a fenced {type:'fill_input_form', data} object, a bare object without
\* type and data, or prose, or no generated text at all.
OkBodies == {"text", "fillform", "plainobject", "prose", "notext"}
HttpOutcomes ==
    {[kind |-> "network", status |-> 0, body |-> "none"]}
    \cup {[kind |-> "response", status |-> 200, body |-> b] : b \in OkBodies}
    \cup {[kind |-> "response", status |-> s, body |-> "errbody"] : s \in Statuses \ {200}}

\* Response.ok
RespOk(o) == o.kind = "response" /\ o.status >= 200 /\ o.status <= 299

(***************************************************************************)
(* JSON values, as far as callGemini and generateTour inspect them.        *)
(***************************************************************************)

\* Keys a form-input object may carry.
FieldNames == {"email", "name"}

\* The value of the `type` property: undefined, the empty string, or a name.
TypeVals == {"absent", "", "tour", "fill_input_form", "chat"}

\* The value of the `data` property: undefined, null, [], an array of steps
\* or an object.
DataVals == {"absent", "null", "emptyArray", "steps", "object"}

\* Element 0 (property "0"): undefined, a value without `popover`, or a step
\* with a popover.
FirstVals == {"absent", "plain", "popover"}

JsonVal(k, t, d, f, ks) ==
    [kind |-> k, type |-> t, data |-> d, first |-> f, keys |-> ks]

\* JSON null: also parseJson's signal that nothing could be parsed.
Null == JsonVal("null", "absent", "absent", "absent", {})

\* Text that is not JSON.
Malformed == JsonVal("malformed", "absent", "absent", "absent", {})

\* 0, "" and false; other numbers, strings and true.
Scalars ==
    {JsonVal(k, "absent", "absent", "absent", {}) : k \in {"falsyScalar", "truthyScalar"}}

\* Arrays: empty when element 0 is absent.
Arrays == {JsonVal("array", "absent", "absent", f, {}) : f \in FirstVals}

Objects ==
    {JsonVal("object", t, d, f, ks) :
        t \in TypeVals, d \in DataVals, f \in FirstVals, ks \in SUBSET FieldNames}

JsonValues == {Null} \cup Scalars \cup Arrays \cup Objects

\* The `tour` argument of callGemini: undefined, or an existing tour with or
\* without formInputs.
NoTour == [present |-> FALSE, hasFormInputs |-> FALSE, inputKeys |-> {}]
TourArgs ==
    {NoTour}
    \cup {[present |-> TRUE, hasFormInputs |-> FALSE, inputKeys |-> {}]}
    \cup {[present |-> TRUE, hasFormInputs |-> TRUE, inputKeys |-> ks] :
             ks \in SUBSET FieldNames}

\* Generated text: JSON (or something else) that is bare, inside a
\* "```json\n ... \n```" block, or inside a fence the pattern does not match.
Wraps == {"none", "fence", "looseFence"}
GenTexts == [wrap : Wraps, inner : JsonValues \cup {Malformed}]

\* JSON.parse, with null standing for the exception.
JsonParse(v) == IF v.kind = "malformed" THEN Null ELSE v

\* parseJson: the fenced block when the pattern matches, else the whole
\* text, which is not JSON when it carries an unmatched fence.
\* A value that is not a string is answered null at once; with two fenced
\* blocks the greedy pattern takes everything between the first opening
\* and the last closing fence, which is not JSON.
parseJson_WholeText(text) ==
    IF text.wrap = "none" THEN JsonParse(text.inner) ELSE Null
parseJson(text) ==
    IF text.wrap = "notString" THEN Null
    ELSE IF text.wrap = "fence" THEN JsonParse(text.inner)
    ELSE IF text.wrap = "twoFences" THEN Null
    ELSE IF text.wrap = "none" THEN JsonParse(text.inner)
    ELSE Null

\* JSON.stringify(v): the text of v alone, with every line break inside a
\* string escaped, so that it carries no fence line.
Stringify(v) == [wrap |-> "none", inner |-> v]

\* Arguments of parseJson: the texts above, a text with two fenced blocks,
\* and a value that is not a string.
ParseInputs ==
    GenTexts
    \cup [wrap : {"twoFences"}, inner : JsonValues]
    \cup {[wrap |-> "notString", inner |-> Null]}

\* JavaScript truthiness of the value and of its two properties.
Falsy(v) == v.kind \in {"null", "falsyScalar"}
TypeFalsy(v) == v.type \in {"absent", ""}
DataFalsy(v) == v.data \in {"absent", "null"}
IsArray(v) == v.kind = "array"
TypeofObject(v) == v.kind \in {"null", "array", "object"}

TypeErrorOnNull == "Cannot read properties of null (reading '0')"

\* The generated text carried by a 200 body that has one.
BodyText(b) ==
    CASE b = "text"     -> [wrap |-> "fence",
                            inner |-> JsonVal("array", "absent", "absent", "popover", {})]
      [] b = "fillform" -> [wrap |-> "fence",
                            inner |-> JsonVal("object", "fill_input_form", "object", "absent", {})]
      [] b = "plainobject" -> [wrap |-> "none",
                               inner |-> JsonVal("object", "absent", "absent", "plain", {})]
      [] b = "prose"    -> [wrap |-> "none", inner |-> Malformed]

(***************************************************************************)
(* Program constants.                                                      *)
(***************************************************************************)
MAX_RETRIES == 3
BASE_DELAY_MS == 500

VARIABLES
    rev,        \* revision of the Coordinator under analysis
    storedKey,  \* chrome.storage.local holds geminiApiKey
    pc,         \* the pending platform callback / await of the handler
    req,        \* the GENERATE_TOUR message being handled
    tab,        \* tab id resolved by the active-tab query
    apiKey,     \* "unread", "absent" or "key": the credential as read
    curMsg,     \* message type the send helper is delivering
    tabOps,     \* tab operations issued for this request, with outcomes
    attempt,    \* callGemini's loop counter
    httpCount,  \* fetch calls issued for this request
    hist,       \* outcomes of the completed fetch calls
    delays,     \* sleep durations issued by callGemini
    gen,        \* result of the generate stage
    responses,  \* sendResponse calls made for this request
    activeTab,  \* the browser's active tab in the current window
    switched,   \* the active tab changed while the model call was pending
    gText,      \* generated text handed to parseJson
    gTour,      \* the `tour` argument of callGemini
    gOut,       \* what callGemini made of the text
    rRev,       \* revision of the Renderer under analysis
    rLib,       \* state of the highlighting library in the page
    rMsg,       \* the message delivered to the Renderer
    rPc,        \* the Renderer handler's position
    rLog,       \* library calls and replies made by the Renderer handler
    rPage,      \* what the page's DOM holds when the context is gathered
    lMsg,       \* the message the background listener is handling
    lPc,        \* the pending promise of that message's handler
    lLog,       \* injections, their outcomes and replies for that message
    lData,      \* the records of data/stored-steps.json
    qCtx,       \* the page context handed to callGemini
    qText,      \* the text of the outbound request built from it
    uIn,        \* the popup's apiKey and prompt fields
    uPc,        \* the pending await of handleGenerateClick
    uLog,       \* what the click handler did, in order
    uStore,     \* geminiApiKey in chrome.storage.local ("" when absent)
    uRead,      \* what the Coordinator's storage read found for the click's request
    oReq,       \* per GENERATE_TOUR request of two overlapping ones: its locals
    oAttempt,   \* the attempt counters of the callGemini calls in progress
    oActive,    \* the tab that is active in the current window
    tStep,      \* the step of a running tour that carries callbacks
    tCur,       \* index of the step the library displays (TourLen: none)
    tTimers,    \* the pending setTimeout callbacks of the step, oldest first
    tLog,       \* what the user, the callbacks and the library did, in order
    tBlur       \* blur listeners attached to the step's element

\* The state of the normalization and of the Renderer, which the
\* Coordinator's actions leave alone.
gwVars == <<gText, gTour, gOut>>
rdVars == <<rRev, rLib, rMsg, rPc, rLog, rPage>>
lsVars == <<lMsg, lPc, lLog, lData>>
pmVars == <<qCtx, qText>>
puVars == <<uIn, uPc, uLog, uStore, uRead>>
ovVars == <<oReq, oAttempt, oActive>>
tkVars == <<tStep, tCur, tTimers, tLog, tBlur>>

vars == <<rev, storedKey, pc, req, tab, apiKey, curMsg, tabOps, attempt,
          httpCount, hist, delays, gen, responses, activeTab, switched,
          gwVars, rdVars, lsVars, pmVars, puVars, ovVars, tkVars>>

NoGen == [status |-> "none", payload |-> "none", error |-> ""]

\* The single-request handler is not running.
HandlerIdle ==
    /\ pc = "idle"
    /\ req = [prompt |-> "show me how to sign up", mock |-> FALSE]
    /\ tab = NoTab
    /\ apiKey = "unread"
    /\ curMsg = "none"
    /\ tabOps = <<>>
    /\ attempt = 0
    /\ httpCount = 0
    /\ hist = <<>>
    /\ delays = <<>>
    /\ gen = NoGen
    /\ responses = <<>>
    /\ switched = FALSE

\* No request is being handled.
CoordinatorIdle ==
    /\ storedKey = FALSE
    /\ HandlerIdle

\* callGemini has not been handed a text.
NoOut == [act |-> "none", form |-> "none", type |-> "absent", of |-> Null, error |-> ""]
GatewayIdle ==
    /\ gText = [wrap |-> "none", inner |-> Null]
    /\ gTour = NoTour
    /\ gOut = NoOut

\* No message has been delivered to the content script.
NoResult == [kind |-> "undefined", steps |-> <<>>]
RendererIdle ==
    /\ rRev = "new"
    /\ rLib = "ready"
    /\ rMsg = [type |-> "none", result |-> NoResult]
    /\ rPc = "idle"
    /\ rLog = <<>>
    /\ rPage = "links"

\* No message other than GENERATE_TOUR has reached the background listener.
NoListenerMessage == [type |-> "none", sender |-> 0, url |-> "undefined"]
ListenerIdle ==
    /\ lMsg = NoListenerMessage
    /\ lPc = "idle"
    /\ lLog = <<>>
    /\ lData = <<>>

\* No request text has been built.
NoContext == [given |-> FALSE, title |-> "", url |-> "", snippet |-> 0]
NoRequestText == [built |-> FALSE, block |-> FALSE, title |-> "", url |-> "", snippet |-> 0]
PromptIdle ==
    /\ qCtx = NoContext
    /\ qText = NoRequestText

\* The popup is open and nothing has been clicked.
PopupIdle ==
    /\ uIn = [key |-> "", prompt |-> ""]
    /\ uPc = "idle"
    /\ uLog = <<>>
    /\ uStore = ""
    /\ uRead = "unread"

\* No second request is under analysis.
OverlapIdle ==
    /\ oReq = <<>>
    /\ oAttempt = <<>>
    /\ oActive = 0

\* Steps of the tour, indexed from 0 as in steps.map((s, stepIndex) => ...);
\* the index past the last one stands for no step being displayed.
TourLen == 3
NoStep == TourLen

\* No tour is running.
TourIdle ==
    /\ tStep = <<>>
    /\ tCur = NoStep
    /\ tTimers = <<>>
    /\ tLog = <<>>
    /\ tBlur = 0

Init ==
    /\ rev \in Revisions
    /\ activeTab \in Tabs \cup {NoTab}
    /\ CoordinatorIdle
    /\ GatewayIdle
    /\ RendererIdle
    /\ ListenerIdle
    /\ PromptIdle
    /\ PopupIdle
    /\ OverlapIdle
    /\ TourIdle

(***************************************************************************)
(* Error messages, per revision.                                           *)
(***************************************************************************)
NoTabError(r) ==
    IF r = "async" THEN "No active tab found or tab is invalid."
    ELSE "No active tab"

NoKeyError(r) ==
    IF r = "async"
    THEN "No Gemini API key saved in extension storage. Please set it in the options."
    ELSE "No Gemini API key saved in extension storage."

\* The first send failed with an error that is not a missing receiver.
FirstSendError(r, e) ==
    IF r = "async" THEN "SendMessage failed: " \o e ELSE e

\* chrome.scripting.executeScript failed.  In the callback revisions the
\* page-context callback reads chrome.runtime.lastError before the helper's
\* wrapped error, so the raw message is reported for REQUEST_PAGE_CONTEXT.
InjectionError(r, m, e) ==
    IF r = "async"
    THEN "Failed to inject content script or retry message failed: " \o e
    ELSE IF m = "REQUEST_PAGE_CONTEXT" THEN e
    ELSE "Failed to inject content script: " \o e

\* The send after a successful injection failed.
RetrySendError(r, m, e) ==
    IF r = "async"
    THEN "Failed to inject content script or retry message failed: " \o e
    ELSE IF m = "REQUEST_PAGE_CONTEXT" THEN e
    ELSE "No receiver after injection: " \o e

StatusError(r, o) ==
    IF r = "cb2"
    THEN "Generative Language API returned " \o ToString(o.status) \o ": " \o o.body
    ELSE "Generative Language API Error " \o ToString(o.status) \o ": " \o o.body

NetworkError == "Failed to fetch"

NoTextError(r) ==
    IF r = "cb2" THEN "Unexpected end of JSON input"
    ELSE "API response was successful but contained no generated text."

FallThroughError(r) ==
    IF r = "cb2" THEN "Failed to call Generative Language API"
    ELSE "Failed to call Generative Language API after all retries."

GenerationError(r, e) ==
    IF r = "async" THEN "AI generation failed: " \o e ELSE e

(***************************************************************************)
(* Pure decisions of the code.                                             *)
(***************************************************************************)

\* Variant: every send failure is taken for a missing receiver.
isMissingReceiverError_Any(e) == TRUE

\* Error check for when the content script has not loaded yet.
isMissingReceiverError(e) ==
    \/ Includes(e, "Could not establish connection")
    \/ Includes(e, "Receiving end does not exist")

\* Variant: the result of the tab query is not validated.
InvalidTab_Never(t) == FALSE

\* `!tab || !tab.id` on the first tab of the query result.
InvalidTab(t) == t = NoTab

\* What the send helper does when the first sendMessage completes.
AfterFirstSend(o) ==
    IF o = "ok" THEN "return"
    ELSE IF isMissingReceiverError(o) THEN "inject"
    ELSE "fail"

\* Variant: the message is not sent again after the injection.
AfterInjection_NoRetry(o) == "fail"

\* What the send helper does when executeScript completes.
AfterInjection(o) == IF o = "ok" THEN "retry" ELSE "fail"

\* Variant: a failure of the second sendMessage is passed over.
AfterRetrySend_Ignored(o) == "return"

\* What the send helper does when the second sendMessage completes.
AfterRetrySend(o) == IF o = "ok" THEN "return" ELSE "fail"

\* The request is a mock request for the revision: the prompt prefix in
\* generateTour (part_003), the message's mock flag in background.js.
IsMock(r, m) ==
    IF r = "async" THEN StartsWithMock(TrimLower(m.prompt)) ELSE m.mock

\* Variant: an absent credential is not detected.
CredentialMissing_Never(r, key, m) == FALSE

\* `if (!apiKey && !mock)` of the callback revisions; getApiKey of the
\* promise revision throws on an absent key whatever the prompt.
CredentialMissing(r, key, m) ==
    IF r = "async" THEN key = "absent" ELSE key = "absent" /\ ~m.mock

\* Variant: the model is called as soon as the tab is resolved.
StageAfterTab_Generate(r) == "generate"

\* Variant: the page context is requested first in every revision.
StageAfterTab_Context(r) == "context"

\* The order of the stages after the active tab is resolved.
StageAfterTab(r) == IF r = "async" THEN "storage" ELSE "context"
StageAfterStorage(r) == IF r = "async" THEN "context" ELSE "generate"
StageAfterContext(r) == IF r = "async" THEN "generate" ELSE "storage"

\* How the generate stage obtains its result: the mock provider, a canned
\* array built in place, or the HTTP call.
GenerateVia(r, m) ==
    IF r = "async" /\ StartsWithMock(TrimLower(m.prompt)) THEN "mockProvider"
    ELSE IF r = "cb2" /\ m.mock THEN "inline"
    ELSE "callGemini"

\* Variant: the delay does not grow with the attempt.
Backoff_Flat(a) == BASE_DELAY_MS

\* Delay before the retry that follows attempt a.
Backoff(a) == BASE_DELAY_MS * 2^(a - 1)

\* `resp.status >= 500 && attempt < MAX_RETRIES` on a non-ok response.
RetryOnStatus(o, a) == o.status >= 500 /\ a < MAX_RETRIES

\* Variant: the catch block retries on the last attempt too.
RetryOnCatch_Always(a) == TRUE

\* `attempt < MAX_RETRIES` of the catch block.
RetryOnCatch(a) == a < MAX_RETRIES

\* Variant: a value whose `type` is truthy is taken as it is.
LacksEnvelope_TypeOnly(result) == Falsy(result) \/ TypeFalsy(result)

\* `!result || !result.type || !result.data`
LacksEnvelope(result) == Falsy(result) \/ TypeFalsy(result) \/ DataFalsy(result)

\* callGemini returns: the parsed value itself ("unchanged"), an envelope
\* {type: t, data: result} ("wrap"), or {type: t, data: {tourName,
\* formInput: result}} ("formInput").
Returned(f, t, result) ==
    [act |-> "return", form |-> f, type |-> t, of |-> result, error |-> ""]
Thrown(e, result) ==
    [act |-> "throw", form |-> "none", type |-> "absent", of |-> result, error |-> e]

\* `resultKeys.some(k => inputKeys.includes(k))`
HasOverlap(result, tour) == result.keys \cap tour.inputKeys # {}

\* Variant: the key overlap is tested before the popover of element 0.
Fallback_OverlapFirst(result, tour) ==
    IF IsArray(result) THEN Returned("wrap", "tour", result)
    ELSE IF TypeofObject(result)
    THEN IF result.kind = "null" THEN Thrown(TypeErrorOnNull, result)
         ELSE IF tour.present /\ tour.hasFormInputs /\ HasOverlap(result, tour)
         THEN Returned("formInput", "fill_input_form", result)
         ELSE IF result.first = "popover" THEN Returned("wrap", "tour", result)
         ELSE Returned("wrap", "unknown", result)
    ELSE Returned("wrap", "unknown", result)

\* The branch for a value without truthy `type` and `data`.
Fallback(result, tour) ==
    IF IsArray(result) THEN Returned("wrap", "tour", result)
    ELSE IF TypeofObject(result)
    THEN IF result.kind = "null" THEN Thrown(TypeErrorOnNull, result)
         ELSE IF result.first = "popover" THEN Returned("wrap", "tour", result)
         ELSE IF tour.present /\ tour.hasFormInputs /\ HasOverlap(result, tour)
         THEN Returned("formInput", "fill_input_form", result)
         ELSE Returned("wrap", "unknown", result)
    ELSE Returned("wrap", "unknown", result)

\* What callGemini (part_005) makes of the parsed text.
Normalize(result, tour) ==
    IF LacksEnvelope(result) THEN Fallback(result, tour)
    ELSE Returned("unchanged", result.type, result)

\* The class of the `data` property of what callGemini returned.
DataOf(n) ==
    CASE n.form = "unchanged" -> n.of.data
      [] n.form = "formInput" -> "object"
      [] n.form = "wrap" ->
           IF IsArray(n.of)
           THEN IF n.of.first = "absent" THEN "emptyArray" ELSE "steps"
           ELSE IF n.of.kind = "object" THEN "object" ELSE "scalar"

DataIsArray(n) == DataOf(n) \in {"emptyArray", "steps"}

ArrayPayload(d) == IF d = "emptyArray" THEN "EmptyArray" ELSE "StepArray"

ExpectedStepsError(n) == "Expected tour steps but got type: " \o n.type

\* Variant: a response of any other type is returned as it is.
generateTour_PassThrough(n) ==
    IF n.type = "tour" /\ DataIsArray(n)
    THEN [act |-> "return", payload |-> ArrayPayload(DataOf(n)), error |-> ""]
    ELSE [act |-> "return", payload |-> "FillFormEnvelope", error |-> ""]

\* generateTour (part_003) on the response of callGemini.
generateTour(n) ==
    IF n.type = "tour" /\ DataIsArray(n)
    THEN [act |-> "return", payload |-> ArrayPayload(DataOf(n)), error |-> ""]
    ELSE IF n.type = "fill_input_form"
    THEN [act |-> "return", payload |-> "FillFormEnvelope", error |-> ""]
    ELSE IF DataIsArray(n)
    THEN [act |-> "return", payload |-> ArrayPayload(DataOf(n)), error |-> ""]
    ELSE [act |-> "throw", payload |-> "none", error |-> ExpectedStepsError(n)]

\* callGemini of gemini.js: the parsed array, or [] for anything else.
StepsOrEmpty(result) ==
    IF IsArray(result) /\ result.first # "absent" THEN "StepArray" ELSE "EmptyArray"

\* What the generate stage makes of a 200 response with generated text,
\* for the revision: the raw response in background.js:349.
Generate(r, text) ==
    CASE r = "cb2" -> [act |-> "return", payload |-> "RawEnvelope", error |-> ""]
      [] r = "cb1" -> [act |-> "return", payload |-> StepsOrEmpty(parseJson(text)),
                       error |-> ""]
      [] r = "async" ->
           LET n == Normalize(parseJson(text), NoTour) IN
           IF n.act = "throw"
           THEN [act |-> "retry", payload |-> "none", error |-> n.error]
           ELSE generateTour(n)

\* The error thrown inside the try block for outcome o on attempt a, or
\* "" when nothing is thrown there.
ThrownInTry(r, o, a) ==
    IF o.kind = "network" THEN NetworkError
    ELSE IF ~RespOk(o)
         THEN IF RetryOnStatus(o, a) THEN "" ELSE StatusError(r, o)
    ELSE IF o.body = "notext" THEN NoTextError(r)
    ELSE IF Generate(r, BodyText(o.body)).act = "retry"
    THEN Generate(r, BodyText(o.body)).error
    ELSE ""

\* One iteration of callGemini's loop after the fetch completed with o:
\* "return" the result, "sleep" and continue, or "throw" out of the call.
AttemptStep(r, o, a) ==
    LET e == ThrownInTry(r, o, a) IN
    IF e = ""
    THEN IF RespOk(o) THEN [act |-> "return", error |-> ""]
         ELSE [act |-> "sleep", error |-> ""]
    ELSE IF RetryOnCatch(a) THEN [act |-> "sleep", error |-> e]
    ELSE [act |-> "throw", error |-> e]

\* Variant: the render message goes to whichever tab is active by then.
RenderTarget_Active(captured, active) == active

\* The tab the render message is sent to: the id captured from the query.
RenderTarget(captured, active) == captured

\* What the mock paths of the generate stage hand to the render stage.
Payload(r, via) ==
    CASE via = "mockProvider" -> "CannedSteps"
      [] via = "inline"       -> "MockStepsObject"

(***************************************************************************)
(* Steps shared by the actions.                                            *)
(***************************************************************************)

\* Variant: the page-context request carries the credential along.
MessageFields_WithKey(m) ==
    IF m = "REQUEST_PAGE_CONTEXT" THEN {"type", "prompt", "apiKey"}
    ELSE {"type", "result"}

\* The properties of the message object built for the tab.
MessageFields(m) ==
    IF m = "REQUEST_PAGE_CONTEXT" THEN {"type", "prompt"} ELSE {"type", "result"}

\* A tab operation: tabs.sendMessage of a message, or scripting.executeScript
\* of the content script file (which carries no message).
TabOp(o, m, t, p) ==
    [op |-> o, msg |-> m, tab |-> t, out |-> "pending", payload |-> p,
     fields |-> IF o = "send" THEN MessageFields(m) ELSE {}]

\* The last issued tab operation completed with outcome o.
Completed(ops, o) == [ops EXCEPT ![Len(ops)].out = o]

\* sendResponse(r): the handler ends.
Respond(r, ops, g) ==
    /\ pc' = "done"
    /\ curMsg' = "none"
    /\ tabOps' = ops
    /\ gen' = g
    /\ responses' = Append(responses, r)
    /\ UNCHANGED <<attempt, httpCount>>

\* Variant: the failure response drops the error message.
Failure_NoMessage(e) == [ok |-> FALSE, error |-> ""]

Failure(e) == [ok |-> FALSE, error |-> e]
Success == [ok |-> TRUE, error |-> ""]

\* The send helper is called with message type m for tab t.
StartSend(m, t, ops, g) ==
    /\ pc' = "sendFirst"
    /\ curMsg' = m
    /\ tabOps' = Append(ops, TabOp("send", m, t, g.payload))
    /\ gen' = g
    /\ UNCHANGED <<attempt, httpCount, responses>>

\* The handler moves on to stage s.
EnterStage(s, t, ops) ==
    CASE s = "storage" ->
           /\ pc' = "storage"
           /\ curMsg' = "none"
           /\ tabOps' = ops
           /\ UNCHANGED <<attempt, httpCount, gen, responses>>
      [] s = "context" -> StartSend("REQUEST_PAGE_CONTEXT", t, ops, gen)
      [] s = "generate" ->
           CASE GenerateVia(rev, req) = "mockProvider" ->
                  /\ pc' = "mockProvider"
                  /\ curMsg' = "none"
                  /\ tabOps' = ops
                  /\ UNCHANGED <<attempt, httpCount, gen, responses>>
             [] GenerateVia(rev, req) = "inline" ->
                  StartSend("GEMINI_RESULT", RenderTarget(t, activeTab), ops,
                            [status |-> "returned", payload |-> Payload(rev, "inline"),
                             error |-> ""])
             [] GenerateVia(rev, req) = "callGemini" ->
                  /\ pc' = "fetch"
                  /\ curMsg' = "none"
                  /\ tabOps' = ops
                  /\ attempt' = 1
                  /\ httpCount' = httpCount + 1
                  /\ UNCHANGED <<gen, responses>>

\* The generate stage returned payload p: the render message is sent.
Generated(p) ==
    StartSend("GEMINI_RESULT", RenderTarget(tab, activeTab), tabOps,
              [status |-> "returned", payload |-> p, error |-> ""])

\* The generate stage threw e: the request fails.
GenerateFailed(e) ==
    Respond(Failure(GenerationError(rev, e)), tabOps,
            [status |-> "thrown", payload |-> "none", error |-> e])

\* The send helper returned for the current message.
SendReturned(ops) ==
    IF curMsg = "REQUEST_PAGE_CONTEXT"
    THEN EnterStage(StageAfterContext(rev), tab, ops)
    ELSE Respond(Success, ops, gen)

(***************************************************************************)
(* Actions.                                                                *)
(***************************************************************************)

\* The model call of the current request is pending.
ModelCallPending == pc \in {"mockProvider", "fetch", "sleep"}

\* The user activates another tab of the window.
ActivateTab ==
    /\ \E t \in Tabs \ {activeTab} : activeTab' = t
    /\ switched' = (switched \/ ModelCallPending)
    /\ UNCHANGED <<rev, storedKey, pc, req, tab, apiKey, curMsg, tabOps, attempt,
                   httpCount, hist, delays, gen, responses, gwVars, rdVars, lsVars, pmVars, puVars, ovVars, tkVars>>

\* The Initiator stores the credential (popup saveApiKey).
SaveApiKey ==
    /\ ~storedKey
    /\ storedKey' = TRUE
    /\ UNCHANGED <<rev, pc, req, tab, apiKey, curMsg, tabOps, attempt,
                   httpCount, hist, delays, gen, responses, activeTab, switched, gwVars, rdVars, lsVars, pmVars, puVars, ovVars, tkVars>>

\* A GENERATE_TOUR message arrives: the listener queries the active tab.
ReceiveGenerateTour ==
    /\ pc \in {"idle", "done"}
    /\ \E p \in Prompts, mk \in BOOLEAN : req' = [prompt |-> p, mock |-> mk]
    /\ pc' = "tabQuery"
    /\ tab' = NoTab
    /\ apiKey' = "unread"
    /\ curMsg' = "none"
    /\ tabOps' = <<>>
    /\ attempt' = 0
    /\ httpCount' = 0
    /\ hist' = <<>>
    /\ delays' = <<>>
    /\ gen' = NoGen
    /\ responses' = <<>>
    /\ switched' = FALSE
    /\ UNCHANGED <<rev, storedKey, activeTab, gwVars, rdVars, lsVars, pmVars, puVars, ovVars, tkVars>>

\* chrome.tabs.query({active: true, currentWindow: true}) completes with
\* the tab that is active now (or none).
TabQueryDone ==
    /\ pc = "tabQuery"
    /\ tab' = activeTab
    /\ IF InvalidTab(activeTab)
       THEN Respond(Failure(NoTabError(rev)), tabOps, gen)
       ELSE EnterStage(StageAfterTab(rev), activeTab, tabOps)
    /\ UNCHANGED <<rev, storedKey, req, apiKey, hist, delays, activeTab, switched, gwVars, rdVars, lsVars, pmVars, puVars, ovVars, tkVars>>

\* chrome.storage.local.get completes.
StorageGetDone ==
    /\ pc = "storage"
    /\ apiKey' = IF storedKey THEN "key" ELSE "absent"
    /\ IF CredentialMissing(rev, apiKey', req)
       THEN Respond(Failure(NoKeyError(rev)), tabOps, gen)
       ELSE EnterStage(StageAfterStorage(rev), tab, tabOps)
    /\ UNCHANGED <<rev, storedKey, req, tab, hist, delays, activeTab, switched, gwVars, rdVars, lsVars, pmVars, puVars, ovVars, tkVars>>

\* The first chrome.tabs.sendMessage of the helper completes.
FirstSendDone ==
    /\ pc = "sendFirst"
    /\ \E o \in SendOutcomes :
         LET ops == Completed(tabOps, o) IN
         CASE AfterFirstSend(o) = "return" -> SendReturned(ops)
           [] AfterFirstSend(o) = "inject" ->
                /\ pc' = "inject"
                /\ tabOps' = Append(ops, TabOp("inject", curMsg, tab, "none"))
                /\ UNCHANGED <<curMsg, attempt, httpCount, gen, responses>>
           [] AfterFirstSend(o) = "fail" ->
                Respond(Failure(FirstSendError(rev, o)), ops, gen)
    /\ UNCHANGED <<rev, storedKey, req, tab, apiKey, hist, delays, activeTab, switched, gwVars, rdVars, lsVars, pmVars, puVars, ovVars, tkVars>>

\* chrome.scripting.executeScript of the helper completes.
InjectionDone ==
    /\ pc = "inject"
    /\ \E o \in InjectOutcomes :
         LET ops == Completed(tabOps, o) IN
         CASE AfterInjection(o) = "retry" ->
                /\ pc' = "sendRetry"
                /\ tabOps' = Append(ops, TabOp("send", curMsg, tab, gen.payload))
                /\ UNCHANGED <<curMsg, attempt, httpCount, gen, responses>>
           [] AfterInjection(o) = "fail" ->
                Respond(Failure(InjectionError(rev, curMsg, o)), ops, gen)
    /\ UNCHANGED <<rev, storedKey, req, tab, apiKey, hist, delays, activeTab, switched, gwVars, rdVars, lsVars, pmVars, puVars, ovVars, tkVars>>

\* The chrome.tabs.sendMessage after the injection completes.
RetrySendDone ==
    /\ pc = "sendRetry"
    /\ \E o \in SendOutcomes :
         LET ops == Completed(tabOps, o) IN
         CASE AfterRetrySend(o) = "return" -> SendReturned(ops)
           [] AfterRetrySend(o) = "fail" ->
                Respond(Failure(RetrySendError(rev, curMsg, o)), ops, gen)
    /\ UNCHANGED <<rev, storedKey, req, tab, apiKey, hist, delays, activeTab, switched, gwVars, rdVars, lsVars, pmVars, puVars, ovVars, tkVars>>

\* callMockProvider returns its canned steps.
MockProviderDone ==
    /\ pc = "mockProvider"
    /\ Generated(Payload(rev, "mockProvider"))
    /\ UNCHANGED <<rev, storedKey, req, tab, apiKey, hist, delays, activeTab, switched, gwVars, rdVars, lsVars, pmVars, puVars, ovVars, tkVars>>

\* One fetch of callGemini completes with outcome o.
FetchDone ==
    /\ pc = "fetch"
    /\ \E o \in HttpOutcomes :
         LET step == AttemptStep(rev, o, attempt) IN
         /\ hist' = Append(hist, o)
         /\ CASE step.act = "return" ->
                   /\ LET g == Generate(rev, BodyText(o.body)) IN
                      IF g.act = "return" THEN Generated(g.payload)
                      ELSE GenerateFailed(g.error)
                   /\ UNCHANGED delays
              [] step.act = "sleep" ->
                   /\ pc' = "sleep"
                   /\ delays' = Append(delays, Backoff(attempt))
                   /\ UNCHANGED <<curMsg, tabOps, attempt, httpCount, gen, responses>>
              [] step.act = "throw" ->
                   /\ GenerateFailed(step.error)
                   /\ UNCHANGED delays
    /\ UNCHANGED <<rev, storedKey, req, tab, apiKey, activeTab, switched, gwVars, rdVars, lsVars, pmVars, puVars, ovVars, tkVars>>

\* The backoff sleep ends: `continue` increments attempt and tests the loop.
SleepDone ==
    /\ pc = "sleep"
    /\ IF attempt + 1 <= MAX_RETRIES
       THEN /\ pc' = "fetch"
            /\ attempt' = attempt + 1
            /\ httpCount' = httpCount + 1
            /\ UNCHANGED <<curMsg, tabOps, gen, responses>>
       ELSE GenerateFailed(FallThroughError(rev))
    /\ UNCHANGED <<rev, storedKey, req, tab, apiKey, hist, delays, activeTab, switched, gwVars, rdVars, lsVars, pmVars, puVars, ovVars, tkVars>>

\* The platform completes a pending callback of the handler.
Progress ==
    \/ TabQueryDone
    \/ StorageGetDone
    \/ FirstSendDone
    \/ InjectionDone
    \/ RetrySendDone
    \/ MockProviderDone
    \/ FetchDone
    \/ SleepDone

Next ==
    \/ SaveApiKey
    \/ ActivateTab
    \/ ReceiveGenerateTour
    \/ TabQueryDone
    \/ StorageGetDone
    \/ FirstSendDone
    \/ InjectionDone
    \/ RetrySendDone
    \/ MockProviderDone
    \/ FetchDone
    \/ SleepDone

Spec == Init /\ [][Next]_vars

\* Every pending platform callback and HTTP response eventually completes.
FairSpec == Spec /\ WF_vars(Progress)

TypeOK ==
    /\ rev \in Revisions
    /\ storedKey \in BOOLEAN
    /\ pc \in {"idle", "tabQuery", "storage", "sendFirst", "inject", "sendRetry",
               "mockProvider", "fetch", "sleep", "done"}
    /\ tab \in Tabs \cup {NoTab}
    /\ apiKey \in {"unread", "absent", "key"}
    /\ attempt \in 0..(MAX_RETRIES + 1)
    /\ Len(hist) <= httpCount
    /\ activeTab \in Tabs \cup {NoTab}
    /\ switched \in BOOLEAN

(***************************************************************************)
(* callGemini's handling of the generated text, on its own: every text and *)
(* every `tour` argument of the bounded sets is parsed and normalized.     *)
(***************************************************************************)
coVars == <<rev, storedKey, pc, req, tab, apiKey, curMsg, tabOps, attempt,
            httpCount, hist, delays, gen, responses, activeTab, switched>>

GatewayInit ==
    /\ rev = "async"
    /\ activeTab = NoTab
    /\ CoordinatorIdle
    /\ RendererIdle
    /\ ListenerIdle
    /\ PromptIdle
    /\ PopupIdle
    /\ OverlapIdle
    /\ TourIdle
    /\ gText \in GenTexts
    /\ gTour \in TourArgs
    /\ gOut = NoOut

\* parseJson(genText) and the normalization that follows it.
NormalizeText ==
    /\ gOut.act = "none"
    /\ gOut' = Normalize(parseJson(gText), gTour)
    /\ UNCHANGED <<coVars, gText, gTour, rdVars, lsVars, pmVars, puVars, ovVars, tkVars>>

GatewayNext == NormalizeText

GatewaySpec == GatewayInit /\ [][GatewayNext]_vars

(***************************************************************************)
(* parseJson on its own, applied to every argument of the bounded set.     *)
(***************************************************************************)
ParseInit ==
    /\ rev = "async"
    /\ activeTab = NoTab
    /\ CoordinatorIdle
    /\ RendererIdle
    /\ ListenerIdle
    /\ PromptIdle
    /\ PopupIdle
    /\ OverlapIdle
    /\ TourIdle
    /\ gText \in ParseInputs
    /\ gTour = NoTour
    /\ gOut = NoOut

ParseText ==
    /\ gOut.act = "none"
    /\ gOut' = Returned("parsed", "absent", parseJson(gText))
    /\ UNCHANGED <<coVars, gText, gTour, rdVars, lsVars, pmVars, puVars, ovVars, tkVars>>

ParseNext == ParseText

ParseSpec == ParseInit /\ [][ParseNext]_vars

(***************************************************************************)
(* The text of the outbound request, built from the page context by        *)
(* callGemini in each revision.  A snippet is its length in characters.    *)
(***************************************************************************)
MAX_CONTEXT_SNIPPET_LENGTH == 8000
SnippetLengths == {0, 1, 7999, 8000, 8001, 20000}

\* undefined, or an object whose title, url and textSnippet may be empty.
PageContextInputs ==
    {NoContext}
    \cup [given : {TRUE}, title : {"", "Pricing"},
          url : {"", "https://example.com/pricing"}, snippet : SnippetLengths]

\* textSnippet.slice(0, 8000)
Slice(n) == IF n < MAX_CONTEXT_SNIPPET_LENGTH THEN n ELSE MAX_CONTEXT_SNIPPET_LENGTH

\* The context callGemini builds the prompt from: part_005 overwrites its
\* parameter with "" first.
ContextUsed(r, ctx) == IF r = "async" THEN NoContext ELSE ctx

\* buildContextPrompt (gemini.js, part_005) and the contextText of
\* background.js: the parts pushed for the truthy fields, under the
\* ---PAGE CONTEXT--- header; background.js writes the header even without
\* parts.
buildContextPrompt(r, ctx) ==
    LET hasParts == ctx.given /\ (ctx.title # "" \/ ctx.url # "" \/ ctx.snippet > 0) IN
    [built |-> TRUE,
     block |-> (r = "cb2" \/ hasParts),
     title |-> IF ctx.given THEN ctx.title ELSE "",
     url |-> IF ctx.given THEN ctx.url ELSE "",
     snippet |-> IF ctx.given THEN Slice(ctx.snippet) ELSE 0]
RequestText(r, ctx) == buildContextPrompt(r, ContextUsed(r, ctx))

PromptInit ==
    /\ rev \in Revisions
    /\ activeTab = NoTab
    /\ CoordinatorIdle
    /\ GatewayIdle
    /\ RendererIdle
    /\ ListenerIdle
    /\ PopupIdle
    /\ OverlapIdle
    /\ TourIdle
    /\ qCtx \in PageContextInputs
    /\ qText = NoRequestText

\* callGemini up to the construction of the request body.
BuildRequestText ==
    /\ ~qText.built
    /\ qText' = RequestText(rev, qCtx)
    /\ UNCHANGED <<coVars, gwVars, rdVars, lsVars, puVars, ovVars, tkVars, qCtx>>

PromptNext == BuildRequestText

PromptSpec == PromptInit /\ [][PromptNext]_vars

(***************************************************************************)
(* The Renderer: the content script's message handler, on its own.         *)
(***************************************************************************)

\* "old" is part_000:42-161, "mid" is part_001, "new" is part_000:163-397.
RendererRevisions == {"old", "mid", "new"}

\* Longest step sequence built from StepPool.
MaxSteps == 2

\* Step objects as the model returns them; an array may also hold null.
\* A popover object is given in full ({title, description}) or with its
\* title only; a flat title or description may be missing ("undefined").
StepObjects ==
    [kind : {"object"},
     xpath : {"", "//button"},
     element : {"absent", "null", "#start"},
     selector : {"", ".next"},
     popover : {"absent", "given", "titleOnly"},
     title : {"undefined", "", "Welcome"},
     description : {"undefined", "Click here"},
     waitForInput : BOOLEAN,
     nextActions : {"absent", "array", "object"}]

Step(x, e, sel, p, t, w, n) ==
    [kind |-> "object", xpath |-> x, element |-> e, selector |-> sel,
     popover |-> p, title |-> t, description |-> "undefined",
     waitForInput |-> w, nextActions |-> n]

NullEntry == [Step("", "absent", "", "absent", "", FALSE, "absent") EXCEPT !.kind = "null"]

\* Three distinguishable steps for the longer sequences.
StepPool ==
    {Step("", "absent", ".next", "absent", "Welcome", FALSE, "absent"),
     Step("//button", "absent", "", "absent", "", TRUE, "absent"),
     Step("", "null", "", "given", "", FALSE, "array")}

RECURSIVE SeqsOver(_, _)
\* The sequences of length n over set S.
SeqsOver(S, n) ==
    IF n = 0 THEN {<<>>}
    ELSE {Append(q, x) : q \in SeqsOver(S, n - 1), x \in S}

StepSeqs ==
    {<<>>}
    \cup {<<x>> : x \in StepObjects \cup {NullEntry}}
    \cup UNION {SeqsOver(StepPool, n) : n \in 2..MaxSteps}

\* The `result` of a GEMINI_RESULT message.
ResultValues ==
    {[kind |-> k, steps |-> <<>>] : k \in {"undefined", "null", "object", "string"}}
    \cup {[kind |-> "array", steps |-> q] : q \in StepSeqs}

RendererMessages ==
    {[type |-> t, result |-> NoResult] : t \in {"REQUEST_PAGE_CONTEXT", "PING"}}
    \cup {[type |-> "GEMINI_RESULT", result |-> r] : r \in ResultValues}

\* window.driver is undefined; window.driver.js has no driver function;
\* driver(...) returns an object with drive(); driver(...) throws;
\* driver(...) returns an object without drive().
LibStates == {"missing", "nofactory", "ready", "throws", "nodrive"}

\* `message.result || []` of the oldest revision; message.result otherwise.
StepsOfMessage(r, result) ==
    IF r = "old" /\ result.kind \in {"undefined", "null"}
    THEN [kind |-> "array", steps |-> <<>>]
    ELSE result

\* Variant: an empty array is taken for a tour.
HasSteps_AnyArray(steps) == steps.kind = "array"

\* The negation of `!Array.isArray(steps) || steps.length === 0`.
HasSteps(steps) == steps.kind = "array" /\ Len(steps.steps) > 0

NoStepsError == "No tour steps found in Gemini response."

\* The first property read from a step: xpath in the newest revision.
TypeErrorOnNullStep(r) ==
    IF r = "new" THEN "Cannot read properties of null (reading 'xpath')"
    ELSE "Cannot read properties of null (reading 'element')"

\* The error the handler's catch block reports for a thrown message.
RenderError(r, e) ==
    IF r = "old" THEN e ELSE "Content script failed to render tour: " \o e

\* Variant: a step without a target gets no element at all.
TargetOf_NoDefault(r, s) ==
    IF r = "new" /\ s.xpath # "" THEN "xpath:" \o s.xpath
    ELSE IF s.element \notin {"absent", "null"} THEN s.element
    ELSE IF s.selector # "" THEN s.selector
    ELSE "undefined"

\* `s.xpath ? () => getElementByXPath(s.xpath) : s.element || s.selector ||
\* null`; the older revisions do not look at xpath.
TargetOf(r, s) ==
    IF r = "new" /\ s.xpath # "" THEN "xpath:" \o s.xpath
    ELSE IF s.element \notin {"absent", "null"} THEN s.element
    ELSE IF s.selector # "" THEN s.selector
    ELSE "null"

\* `s.popover || {title: s.title || '', description: s.description || ''}`,
\* with the onNextClick callback the newest revision adds for nextActions.
\* `v || ''`
OrEmpty(v) == IF v \in {"undefined", ""} THEN "" ELSE v

PopoverOf(r, s) ==
    [present |-> TRUE,
     given |-> s.popover # "absent",
     title |-> IF s.popover # "absent" THEN "Tip" ELSE OrEmpty(s.title),
     description |-> CASE s.popover = "absent" -> OrEmpty(s.description)
                       [] s.popover = "given" -> "Do this"
                       [] s.popover = "titleOnly" -> "undefined",
     onNextClick |-> r = "new" /\ s.nextActions = "array"]

\* One step in the shape the library expects.
normalizeStep(r, s) ==
    [element |-> TargetOf(r, s),
     popover |-> PopoverOf(r, s),
     onHighlightStarted |-> r = "new" /\ s.waitForInput]

\* Variant: the steps reach the library in reverse order.
normalizeDriverSteps_Reversed(r, steps) ==
    [i \in 1..Len(steps) |-> normalizeStep(r, steps[Len(steps) + 1 - i])]

\* steps.map(...)
normalizeDriverSteps(r, steps) ==
    [i \in 1..Len(steps) |-> normalizeStep(r, steps[i])]

\* Reading a property of a null entry throws.
NormalizeThrows(steps) == \E i \in 1..Len(steps) : steps[i].kind = "null"

\* The page when the context is gathered: it has anchors or buttons, it has
\* none, or querying it throws (document.body is null).
PageStates == {"links", "nolinks", "broken"}

\* A pageContext object; "absent" is a property the object does not have.
PageContext(t, u, sn) == [title |-> t, url |-> u, textSnippet |-> sn]
EmptyContext == PageContext("absent", "absent", "absent")

\* Variant: an empty snippet is sent as the empty string.
Snippet_NoNull(page) == IF page = "links" THEN "<a>Sign up</a>" ELSE ""

\* `textSnippet || null` of the joined outerHTML of the anchors and buttons.
Snippet(page) == IF page = "links" THEN "<a>Sign up</a>" ELSE "null"

\* The context the handler replies with: getPageContext, whose catch block
\* returns a context with textSnippet null; the oldest listener builds the
\* object in place and replies {pageContext: {}} from its catch block.
getPageContext(r, page) ==
    IF page = "broken"
    THEN IF r = "old" THEN EmptyContext
         ELSE PageContext("Sign up", "https://example.test/", "null")
    ELSE PageContext("Sign up", "https://example.test/", Snippet(page))

\* Entries of the handler's log: a call and how it went.
Entry(o, steps, ok, e) ==
    [op |-> o, steps |-> steps, ok |-> ok, error |-> e, context |-> EmptyContext]

\* sendResponse({ pageContext })
ContextReply(c) == [Entry("replyContext", <<>>, TRUE, "") EXCEPT !.context = c]
Reply(ok, e) == Entry("reply", <<>>, ok, e)

\* Variant: the tour is started without looking for the entry point.
LibraryCalls_Unchecked(lib, n) ==
    <<Entry("driver", n, TRUE, ""), Entry("drive", <<>>, TRUE, "")>>

\* The calls runDriverjs makes on the library for the normalized steps n:
\* none when the global is missing, driver(...) and then drive() when the
\* returned object has it.
LibraryCalls(lib, n) ==
    CASE lib = "missing" -> <<>>
      [] lib = "nofactory" -> <<>>
      [] lib = "ready"   -> <<Entry("driver", n, TRUE, ""), Entry("drive", <<>>, TRUE, "")>>
      [] lib = "throws"  -> <<Entry("driver", n, FALSE, "driver threw")>>
      [] lib = "nodrive" -> <<Entry("driver", n, TRUE, "")>>

\* runDriverjs(steps) and the reply that follows it: a throw of the
\* normalization reaches the handler's catch, one of the library does not.
RunAndReply(r, lib, steps) ==
    IF NormalizeThrows(steps)
    THEN <<Entry("normalize", <<>>, FALSE, TypeErrorOnNullStep(r)),
           Reply(FALSE, RenderError(r, TypeErrorOnNullStep(r)))>>
    ELSE LET n == normalizeDriverSteps(r, steps) IN
         <<Entry("normalize", n, TRUE, "")>> \o LibraryCalls(lib, n)
             \o <<Reply(TRUE, "")>>

RendererInit ==
    /\ rev = "async"
    /\ activeTab = NoTab
    /\ CoordinatorIdle
    /\ GatewayIdle
    /\ ListenerIdle
    /\ PromptIdle
    /\ PopupIdle
    /\ OverlapIdle
    /\ TourIdle
    /\ rRev \in RendererRevisions
    /\ rLib \in LibStates
    /\ rMsg \in RendererMessages
    /\ rPc = "delivered"
    /\ rLog = <<>>
    /\ rPage \in PageStates

\* REQUEST_PAGE_CONTEXT: the page context is read and sent back.
HandleContextRequest ==
    /\ rPc = "delivered"
    /\ rMsg.type = "REQUEST_PAGE_CONTEXT"
    /\ rLog' = Append(rLog, ContextReply(getPageContext(rRev, rPage)))
    /\ rPc' = "done"
    /\ UNCHANGED <<coVars, gwVars, lsVars, pmVars, puVars, ovVars, tkVars, rRev, rLib, rMsg, rPage>>

\* A message of another type: the listener returns without a reply.
HandleOther ==
    /\ rPc = "delivered"
    /\ rMsg.type \notin {"REQUEST_PAGE_CONTEXT", "GEMINI_RESULT"}
    /\ rPc' = "done"
    /\ UNCHANGED <<coVars, gwVars, lsVars, pmVars, puVars, ovVars, tkVars, rRev, rLib, rMsg, rLog, rPage>>

\* GEMINI_RESULT: the steps are checked and, in the revisions that do not
\* load the library first, rendered.
HandleResult ==
    /\ rPc = "delivered"
    /\ rMsg.type = "GEMINI_RESULT"
    /\ LET steps == StepsOfMessage(rRev, rMsg.result) IN
       IF ~HasSteps(steps)
       THEN /\ rLog' = Append(rLog, Reply(FALSE, NoStepsError))
            /\ rPc' = "done"
       ELSE IF rRev = "mid"
       THEN /\ rLog' = rLog
            /\ rPc' = "loading"
       ELSE /\ rLog' = rLog \o RunAndReply(rRev, rLib, steps.steps)
            /\ rPc' = "done"
    /\ UNCHANGED <<coVars, gwVars, lsVars, pmVars, puVars, ovVars, tkVars, rRev, rLib, rMsg, rPage>>

\* part_001: loadCss and loadScript settle; the tour runs either way.
AssetsLoaded ==
    /\ rPc = "loading"
    /\ \E ok \in BOOLEAN :
         LET lib == IF ok /\ rLib = "missing" THEN "ready" ELSE rLib IN
         /\ rLib' = lib
         /\ rLog' = (rLog \o <<Entry("load", <<>>, ok, "")>>)
                       \o RunAndReply(rRev, lib, rMsg.result.steps)
    /\ rPc' = "done"
    /\ UNCHANGED <<coVars, gwVars, lsVars, pmVars, puVars, ovVars, tkVars, rRev, rMsg, rPage>>

RendererNext ==
    \/ HandleContextRequest
    \/ HandleOther
    \/ HandleResult
    \/ AssetsLoaded

RendererSpec == RendererInit /\ [][RendererNext]_vars

(***************************************************************************)
(* The background listener's other messages: INJECT_DRIVER                 *)
(* (background.js) and PREDEFINED_TOURS (part_002), and the types no       *)
(* branch of the listener names.  GENERATE_TOUR is the Coordinator         *)
(* specification above.                                                    *)
(***************************************************************************)
MaxTours == 2

\* The `url` of the popup's message: the active tab's URL, or undefined.
PageUrls == {"https://example.com/signup", "https://other.org/"}
NoUrl == "undefined"

\* Records of data/stored-steps.json.
TourPool ==
    {[url |-> "example.com", title |-> "Home"],
     [url |-> "example.com/signup", title |-> "Sign up"],
     [url |-> "other.org", title |-> "Other"]}
RECURSIVE ToursOver(_)
ToursOver(n) ==
    IF n = 0 THEN {<<>>}
    ELSE LET shorter == ToursOver(n - 1) IN
         shorter \cup {Append(q, t) : q \in {x \in shorter : Len(x) = n - 1}, t \in TourPool}
Datasets == ToursOver(MaxTours)

\* Message types sent to the background page besides GENERATE_TOUR.
ListenerTypes == {"PREDEFINED_TOURS", "FILL_FORM_INPUTS", "INJECT_DRIVER", "GET_STATUS"}
ListenerMessages ==
    [type : {"PREDEFINED_TOURS"}, sender : {NoTab}, url : PageUrls \cup {NoUrl}]
    \cup [type : {"INJECT_DRIVER"}, sender : Tabs \cup {NoTab}, url : {NoUrl}]
    \cup [type : {"FILL_FORM_INPUTS", "GET_STATUS"}, sender : {NoTab}, url : {NoUrl}]

\* Outcomes of chrome.scripting.insertCSS / executeScript and of the fetch
\* of the dataset.
AssetErrors == {"Cannot access contents of the page.", "No tab with id."}
AssetOutcomes == {"ok"} \cup AssetErrors
LoadOutcomes == {"ok", "Failed to fetch"}
NoTabIdError == "No tabId"
IncludesOfUndefined == "Cannot read properties of undefined (reading 'includes')"

\* The branches of the listener in each revision: the type it handles
\* besides GENERATE_TOUR.
HandledBy(r) == IF r = "async" THEN "PREDEFINED_TOURS" ELSE "INJECT_DRIVER"

LEntry(op, t, ok, error, tours) ==
    [op |-> op, tab |-> t, ok |-> ok, error |-> error, tours |-> tours]
Injection(op, t) == LEntry(op, t, TRUE, "", <<>>)
Settled(o) == LEntry("settled", NoTab, o = "ok", IF o = "ok" THEN "" ELSE o, <<>>)
ListenerReply(ok, error) == LEntry("reply", NoTab, ok, error, <<>>)
ToursReply(tours) == LEntry("reply", NoTab, TRUE, "", tours)

\* const tabId = sender && sender.tab && sender.tab.id; if (!tabId)
NoSenderTab_Never(sender) == FALSE
NoSenderTab(sender) == sender = NoTab

\* target: { tabId }
InjectTarget_Active(sender, active) == active
InjectTarget(sender, active) == sender

\* insertCSS(...).then(() => executeScript(...)): what follows the
\* stylesheet's outcome.
AfterInsertCSS_Always(o) == "executeScript"
AfterInsertCSS(o) == IF o = "ok" THEN "executeScript" ELSE "catch"

\* storedSteps.filter(step => url.includes(step.url))
MatchesUrl_Reversed(url, step) == Includes(step.url, url) \/ step.url = url
MatchesUrl(url, step) == Includes(url, step.url)
RECURSIVE FilterTours(_, _)
FilterTours(url, steps) ==
    IF steps = <<>> THEN <<>>
    ELSE LET rest == FilterTours(url, Tail(steps)) IN
         IF MatchesUrl(url, Head(steps)) THEN <<Head(steps)>> \o rest ELSE rest
getPredefinedTourForURL(url, storedSteps) == FilterTours(url, storedSteps)

ListenerInit ==
    /\ rev \in Revisions
    /\ activeTab \in Tabs
    /\ CoordinatorIdle
    /\ GatewayIdle
    /\ RendererIdle
    /\ PromptIdle
    /\ PopupIdle
    /\ OverlapIdle
    /\ TourIdle
    /\ lMsg = NoListenerMessage
    /\ lPc = "idle"
    /\ lLog = <<>>
    /\ lData \in Datasets

\* onMessage: the listener's branches on message.type.
ReceiveListenerMessage ==
    /\ lPc \in {"idle", "done"}
    /\ \E m \in ListenerMessages :
         /\ lMsg' = m
         /\ IF m.type # HandledBy(rev)
            THEN /\ lLog' = <<>>
                 /\ lPc' = "done"
            ELSE IF m.type = "PREDEFINED_TOURS"
            THEN /\ lLog' = <<>>
                 /\ lPc' = "fetch"
            ELSE IF NoSenderTab(m.sender)
            THEN /\ lLog' = <<ListenerReply(FALSE, NoTabIdError)>>
                 /\ lPc' = "done"
            ELSE /\ lLog' = <<Injection("insertCSS", InjectTarget(m.sender, activeTab))>>
                 /\ lPc' = "insertCSS"
    /\ UNCHANGED <<coVars, gwVars, rdVars, pmVars, puVars, ovVars, tkVars, lData>>

\* insertCSS settles: the script is injected, or the catch replies.
InsertCssDone ==
    /\ lPc = "insertCSS"
    /\ \E o \in AssetOutcomes :
         IF AfterInsertCSS(o) = "executeScript"
         THEN /\ lLog' = lLog \o <<Settled(o),
                            Injection("executeScript", InjectTarget(lMsg.sender, activeTab))>>
              /\ lPc' = "executeScript"
         ELSE /\ lLog' = lLog \o <<Settled(o), ListenerReply(FALSE, o)>>
              /\ lPc' = "done"
    /\ UNCHANGED <<coVars, gwVars, rdVars, pmVars, puVars, ovVars, tkVars, lMsg, lData>>

\* executeScript settles: {ok:true}, or the catch replies.
ExecuteScriptDone ==
    /\ lPc = "executeScript"
    /\ \E o \in AssetOutcomes :
         lLog' = lLog \o <<Settled(o),
                           IF o = "ok" THEN ListenerReply(TRUE, "")
                                       ELSE ListenerReply(FALSE, o)>>
    /\ lPc' = "done"
    /\ UNCHANGED <<coVars, gwVars, rdVars, pmVars, puVars, ovVars, tkVars, lMsg, lData>>

\* handlePredefinedTours: the fetch of the dataset settles and the matching
\* records are sent, or the catch replies.
DatasetLoaded ==
    /\ lPc = "fetch"
    /\ \E o \in LoadOutcomes :
         lLog' = Append(lLog,
                    IF o # "ok" THEN ListenerReply(FALSE, o)
                    ELSE IF lMsg.url = NoUrl THEN ListenerReply(FALSE, IncludesOfUndefined)
                    ELSE ToursReply(getPredefinedTourForURL(lMsg.url, lData)))
    /\ lPc' = "done"
    /\ UNCHANGED <<coVars, gwVars, rdVars, pmVars, puVars, ovVars, tkVars, lMsg, lData>>

ListenerProgress == InsertCssDone \/ ExecuteScriptDone \/ DatasetLoaded

ListenerNext ==
    \/ ReceiveListenerMessage
    \/ InsertCssDone
    \/ ExecuteScriptDone
    \/ DatasetLoaded

ListenerSpec == ListenerInit /\ [][ListenerNext]_vars

\* A promise of the platform settles.
FairListenerSpec == ListenerSpec /\ WF_vars(ListenerProgress)

(***************************************************************************)
(* The popup's handleGenerateClick with saveApiKey and sendMessageAsync.   *)
(***************************************************************************)

\* Contents of the two fields, and String.prototype.trim on them.
KeyFields == {"", "  ", "AIza-key", " AIza-key ", "AIza-other"}
PromptFields == {"", "  ", "show me how to sign up", " show me how to sign up ", "mock: demo"}
Trim(s) ==
    CASE s = "  " -> ""
      [] s = " AIza-key " -> "AIza-key"
      [] s = " show me how to sign up " -> "show me how to sign up"
      [] OTHER -> s

\* What the callback of chrome.runtime.sendMessage finds: lastError, or a
\* response that is undefined, {ok:true} or {ok:false} with or without
\* error.
NoResponse == [given |-> FALSE, ok |-> FALSE, error |-> ""]
PopupResponses ==
    {NoResponse, [given |-> TRUE, ok |-> TRUE, error |-> ""]}
    \cup [given : {TRUE}, ok : {FALSE},
          error : {"", NoStepsError, NetworkError, "No active tab found or tab is invalid."}
                      \cup {NoKeyError(r) : r \in Revisions}]
SendCallbacks ==
    [lastError : {""}, response : PopupResponses]
    \cup [lastError : SendErrors, response : {NoResponse}]
StorageSetOutcomes == {"ok", "QUOTA_BYTES quota exceeded"}

KeyMissingAlert == "Please enter your Gemini API key."
PromptMissingAlert == "Please enter a prompt describing the tour you want."
UnknownFailure == "Unknown generation failure."
FailedAlert(message) == "Failed to start generation: " \o message

\* sendMessageAsync: the message of the Error it rejects with, or
\* resolution.
Resolved == [rejected |-> FALSE, message |-> ""]
Rejected(m) == [rejected |-> TRUE, message |-> m]
sendMessageAsync_Resolves(cb) == Resolved
sendMessageAsync(cb) ==
    IF cb.lastError # "" THEN Rejected("Runtime error: " \o cb.lastError)
    ELSE IF cb.response.given /\ ~cb.response.ok
         THEN Rejected(IF cb.response.error # "" THEN cb.response.error
                       ELSE UnknownFailure)
    ELSE Resolved

\* if (!apiKey) ... if (!prompt) ...: the alert of the failed validation,
\* or "".
Validation_KeyOnly(key, prompt) == IF key = "" THEN KeyMissingAlert ELSE ""
Validation(key, prompt) ==
    IF key = "" THEN KeyMissingAlert
    ELSE IF prompt = "" THEN PromptMissingAlert
    ELSE ""

\* The key found in storage before the click: none, or an earlier one.
StoredBefore == {"", "AIza-old"}

\* chrome.storage.local.set({ geminiApiKey: key })
StoredAfterSet_Dropped(old, key) == old
StoredAfterSet(old, key) == key

\* The Coordinator's chrome.storage.local.get(['geminiApiKey']).
ReadOf(stored) == IF stored = "" THEN "absent" ELSE stored

\* The response of a Coordinator that found no credential.
MissingKeyResponse(resp) ==
    resp.given /\ ~resp.ok /\ resp.error \in {NoKeyError(r) : r \in Revisions}

NoCallback == [lastError |-> "", response |-> NoResponse]
UEntry(op, text, cb) == [op |-> op, text |-> text, cb |-> cb]
Did(op, text) == UEntry(op, text, NoCallback)
CatchAndFinally(message) == <<Did("alert", FailedAlert(message)), Did("removeLoading", "")>>

PopupInit ==
    /\ rev = "async"
    /\ activeTab = NoTab
    /\ CoordinatorIdle
    /\ GatewayIdle
    /\ RendererIdle
    /\ ListenerIdle
    /\ PromptIdle
    /\ uIn \in [key : KeyFields, prompt : PromptFields]
    /\ uPc = "idle"
    /\ uLog = <<>>
    /\ uStore \in StoredBefore
    /\ uRead = "unread"
    /\ OverlapIdle
    /\ TourIdle

\* The click: the loading state is set, the fields are validated and the
\* key is written to storage.
ClickGenerate ==
    /\ uPc = "idle"
    /\ LET apiKeyValue == Trim(uIn.key)
           prompt == Trim(uIn.prompt)
           complaint == Validation(apiKeyValue, prompt) IN
       IF complaint # ""
       THEN /\ uLog' = <<Did("addLoading", ""), Did("alert", complaint),
                         Did("removeLoading", "")>>
            /\ uPc' = "done"
       ELSE /\ uLog' = <<Did("addLoading", ""), Did("save", apiKeyValue)>>
            /\ uPc' = "saving"
    /\ UNCHANGED <<coVars, gwVars, rdVars, lsVars, pmVars, ovVars, tkVars, uIn, uStore, uRead>>

\* chrome.storage.local.set settles: the message is sent, or the catch
\* alerts.
SaveKeyDone ==
    /\ uPc = "saving"
    /\ \E o \in StorageSetOutcomes :
         IF o = "ok"
         THEN /\ uStore' = StoredAfterSet(uStore, Trim(uIn.key))
              /\ uLog' = Append(uLog, Did("send", Trim(uIn.prompt)))
              /\ uPc' = "sending"
         ELSE /\ uStore' = uStore
              /\ uLog' = uLog \o CatchAndFinally(o)
              /\ uPc' = "done"
    /\ UNCHANGED <<coVars, gwVars, rdVars, lsVars, pmVars, ovVars, tkVars, uIn, uRead>>

\* The Coordinator handling the click's message reads the credential.
CoordinatorReadsKey ==
    /\ uPc = "sending"
    /\ uRead = "unread"
    /\ uRead' = ReadOf(uStore)
    /\ UNCHANGED <<coVars, gwVars, rdVars, lsVars, pmVars, ovVars, tkVars, uIn, uPc, uLog, uStore>>

\* The callback of chrome.runtime.sendMessage runs: the window is closed,
\* or the catch alerts; the loading state is removed.
SendCallbackRuns ==
    /\ uPc = "sending"
    /\ \E cb \in SendCallbacks :
         LET r == sendMessageAsync(cb) IN
         /\ MissingKeyResponse(cb.response) <=> uRead = "absent"
         /\ uLog' = Append(uLog, UEntry("callback", "", cb))
                    \o IF r.rejected THEN CatchAndFinally(r.message)
                       ELSE <<Did("close", ""), Did("removeLoading", "")>>
    /\ uPc' = "done"
    /\ UNCHANGED <<coVars, gwVars, rdVars, lsVars, pmVars, ovVars, tkVars, uIn, uStore, uRead>>

PopupNext ==
    \/ ClickGenerate
    \/ SaveKeyDone
    \/ CoordinatorReadsKey
    \/ SendCallbackRuns

PopupSpec == PopupInit /\ [][PopupNext]_vars

(***************************************************************************)
(* Observations used by the properties.                                    *)
(***************************************************************************)
MsgTypes == {"REQUEST_PAGE_CONTEXT", "GEMINI_RESULT"}

\* The tab operations issued for message type m, in order.
OpsFor(m) == SelectSeq(tabOps, LAMBDA x : x.msg = m)

NoListenerErrors == {"Could not establish connection.", "Receiving end does not exist."}

CountOp(ops, o) == Cardinality({i \in 1..Len(ops) : ops[i].op = o})

PendingTabOps == Cardinality({i \in 1..Len(tabOps) : tabOps[i].out = "pending"})
PendingFetches == httpCount - Len(hist)

ServerError(o) == o.kind = "response" /\ o.status >= 500
ClientError(o) == o.kind = "response" /\ o.status >= 400 /\ o.status <= 499

\* The request is a mock request in neither sense.
NonMock == ~StartsWithMock(TrimLower(req.prompt)) /\ ~req.mock

\* A response has one of the two shapes {ok:true} / {ok:false, error}.
WellFormed(r) == IF r.ok THEN r.error = "" ELSE r.error # ""

(***************************************************************************)
(* Properties of the send-to-tab helper.                                   *)
(***************************************************************************)

\* C1: for each message, when the first send fails with a no-listener
\* error, exactly one injection is attempted; when the injection succeeds
\* the same message is sent again to the same tab exactly once; when that
\* second send fails the request ends with an error response and nothing
\* more is injected or sent for the message.
C1_InjectionRetryOnce ==
    \A m \in MsgTypes :
        LET ops == OpsFor(m) IN
        (ops # <<>> /\ ops[1].op = "send" /\ ops[1].out \in NoListenerErrors) =>
            /\ Len(ops) >= 2
            /\ Len(ops) <= 3
            /\ ops[2].op = "inject"
            /\ CountOp(ops, "inject") = 1
            /\ ops[2].out = "ok" =>
                  /\ Len(ops) = 3
                  /\ ops[3].op = "send"
                  /\ ops[3].tab = ops[1].tab
                  /\ ops[3].payload = ops[1].payload
                  /\ CountOp(ops, "send") = 2
            /\ (Len(ops) = 3 /\ ops[3].out \in SendErrors) =>
                  /\ pc = "done"
                  /\ Len(responses) = 1
                  /\ ~responses[1].ok
                  /\ responses[1].error # ""
                  /\ tabOps[Len(tabOps)] = ops[3]

\* C1 witness: a send failed for lack of a listener, the injection
\* succeeded, the second send failed too and the request has ended.
C1_Witness ==
    \E m \in MsgTypes :
        LET ops == OpsFor(m) IN
        /\ Len(ops) = 3
        /\ ops[1].out \in NoListenerErrors
        /\ ops[2].op = "inject" /\ ops[2].out = "ok"
        /\ ops[3].out \in SendErrors
        /\ pc = "done"

\* C2: when the first send of a message fails with an error that is not a
\* no-listener error, nothing is injected, the message is not sent again,
\* and the request is answered {ok:false, error}.
C2_OtherSendErrorIsFatal ==
    \A m \in MsgTypes :
        LET ops == OpsFor(m) IN
        (ops # <<>> /\ ops[1].out \in SendErrors \ NoListenerErrors) =>
            /\ Len(ops) = 1
            /\ pc = "done"
            /\ Len(responses) = 1
            /\ ~responses[1].ok
            /\ responses[1].error # ""

\* C2 witness: the page-context send failed with another error and the
\* request has been answered.
C2_Witness ==
    /\ pc = "done"
    /\ tabOps # <<>>
    /\ tabOps[Len(tabOps)].op = "send"
    /\ tabOps[Len(tabOps)].out \in SendErrors \ NoListenerErrors
    /\ CountOp(tabOps, "inject") = 0

(***************************************************************************)
(* Properties of the Model Gateway call.                                   *)
(***************************************************************************)

\* C3: a response with status >= 500 on attempt k < 3 is followed by a
\* sleep of 500 * 2^(k-1) ms and a further request; for two such responses
\* followed by a 200 carrying generated text, three requests are made, the
\* delays are 500 then 1000 ms, and the call returns a result.
C3_ServerErrorBackoff ==
    /\ \A k \in 1..Len(hist) :
          (k < 3 /\ ServerError(hist[k])) =>
              /\ Len(delays) >= k
              /\ delays[k] = 500 * 2^(k - 1)
              /\ (pc = "sleep" /\ httpCount = k) \/ httpCount >= k + 1
    /\ ( /\ Len(hist) = 3
         /\ ServerError(hist[1])
         /\ ServerError(hist[2])
         /\ hist[3] = [kind |-> "response", status |-> 200, body |-> "text"] ) =>
              /\ httpCount = 3
              /\ delays = <<500, 1000>>
              /\ gen.status = "returned"
              /\ gen.error = ""

\* C3 witness: the responses were 500, 500, 200 and the call has returned.
C3_Witness ==
    /\ Len(hist) = 3
    /\ hist[1].status = 500 /\ hist[2].status = 500
    /\ hist[3] = [kind |-> "response", status |-> 200, body |-> "text"]
    /\ gen.status = "returned"

\* C4: a 4xx response on the first attempt ends the call at once: one
\* request, no sleep, and the error thrown carries the status and body.
C4_ClientErrorFailsImmediately ==
    (hist # <<>> /\ ClientError(hist[1])) =>
        /\ httpCount = 1
        /\ delays = <<>>
        /\ gen.status = "thrown"
        /\ gen.error = StatusError(rev, hist[1])

\* C5: one call issues at most 3 requests; when all three attempts fail
\* with status >= 500 or a network error, the call ends by throwing the
\* error of the last attempt, with two sleeps in all (none after the third
\* attempt).
C5_AtMostThreeAttempts ==
    /\ httpCount <= 3
    /\ Len(hist) <= 3
    /\ ( /\ Len(hist) = 3
         /\ \A k \in 1..3 : ServerError(hist[k]) \/ hist[k].kind = "network" ) =>
              /\ pc = "done"
              /\ Len(delays) = 2
              /\ gen.status = "thrown"
              /\ gen.error = IF hist[3].kind = "network" THEN "Failed to fetch"
                              ELSE StatusError(rev, hist[3])
              /\ Len(responses) = 1 /\ ~responses[1].ok

\* C5 witness: three attempts failed with server or network errors and the
\* call has thrown.
C5_Witness ==
    /\ Len(hist) = 3
    /\ \A k \in 1..3 : ServerError(hist[k]) \/ hist[k].kind = "network"
    /\ \E k \in 1..3 : hist[k].kind = "network"
    /\ \E k \in 1..3 : ServerError(hist[k])
    /\ gen.status = "thrown"

(***************************************************************************)
(* Properties of the GENERATE_TOUR handler.                                *)
(***************************************************************************)

MissingCredentialErrors ==
    {"MissingCredential",
     "No Gemini API key saved in extension storage.",
     "No Gemini API key saved in extension storage. Please set it in the options."}

\* C6 as stated: a non-mock request handled with no credential in storage
\* is answered with the missing-credential error, and no HTTP request is
\* issued for it.
C6_AlwaysMissingCredential ==
    (NonMock /\ ~storedKey) =>
        /\ httpCount = 0
        /\ pc = "done" =>
              /\ Len(responses) = 1
              /\ ~responses[1].ok
              /\ responses[1].error \in MissingCredentialErrors

\* C6 amended: for a non-mock request with no credential in storage no
\* HTTP request is issued and the answer is {ok:false, error}; the error is
\* the missing-credential message whenever the storage read was reached,
\* and otherwise the request ended earlier, on a missing active tab or (in
\* the callback revisions) a failed page-context delivery.
C6_MissingCredentialWhenRead ==
    (NonMock /\ ~storedKey) =>
        /\ httpCount = 0
        /\ apiKey # "key"
        /\ apiKey = "absent" =>
              /\ pc = "done"
              /\ Len(responses) = 1
              /\ ~responses[1].ok
              /\ responses[1].error = NoKeyError(rev)
              /\ responses[1].error \in MissingCredentialErrors
              /\ OpsFor("GEMINI_RESULT") = <<>>
        /\ (pc = "done" /\ apiKey = "unread") =>
              /\ Len(responses) = 1
              /\ ~responses[1].ok
              /\ responses[1].error # ""
              /\ \/ tab = NoTab
                 \/ /\ rev # "async"
                    /\ tabOps # <<>>
                    /\ tabOps[Len(tabOps)].msg = "REQUEST_PAGE_CONTEXT"
                    /\ tabOps[Len(tabOps)].out # "ok"

\* C6 witness: the storage read found no credential for a non-mock request
\* and the request was answered with the missing-credential message.
C6_Witness ==
    /\ NonMock
    /\ ~storedKey
    /\ apiKey = "absent"
    /\ pc = "done"
    /\ responses = <<[ok |-> FALSE, error |-> NoKeyError(rev)]>>

\* C7: a mock request issues no HTTP request, is never answered with the
\* missing-credential error, and every GEMINI_RESULT it sends carries the
\* canned step sequence; with the render message delivered it ends {ok:true}
\* whether or not a credential is stored.
C7_MockBypassesModelAndCredential ==
    IsMock(rev, req) =>
        /\ httpCount = 0
        /\ \A i \in 1..Len(responses) : responses[i].error \notin MissingCredentialErrors
        /\ \A i \in 1..Len(tabOps) :
              tabOps[i].msg = "GEMINI_RESULT" =>
                  tabOps[i].payload \in {"CannedSteps", "MockStepsObject"}

\* C8: when the tab query resolves no usable tab, the request is answered
\* {ok:false, error} and no message is sent to a tab, nothing is injected
\* and no HTTP request is issued.
C8_NoActiveTab ==
    /\ tab = NoTab =>
          /\ tabOps = <<>>
          /\ httpCount = 0
          /\ apiKey = "unread"
          /\ pc \in {"idle", "tabQuery", "done"}
    /\ (tab = NoTab /\ pc = "done") =>
          /\ Len(responses) = 1
          /\ ~responses[1].ok
          /\ responses[1].error # ""

\* C8 witness: the tab query resolved no tab and the request was answered.
C8_Witness ==
    /\ tab = NoTab
    /\ pc = "done"
    /\ responses = <<[ok |-> FALSE, error |-> NoTabError(rev)]>>

\* C9: every accepted request is eventually answered, it is answered at
\* most once while it runs and exactly once when it has ended, and the
\* answer is {ok:true} or {ok:false, error} with a non-empty error.
C9_AlwaysExactlyOneResponse ==
    /\ [](Len(responses) <= 1)
    /\ [](\A i \in 1..Len(responses) : WellFormed(responses[i]))
    /\ [](pc = "done" <=> Len(responses) = 1)
    /\ (pc \notin {"idle", "done"}) ~> (pc = "done" /\ Len(responses) = 1)

\* C9 witness: a request failed in the model call, after the page context
\* was delivered through an injection, and was answered once.
C9_Witness ==
    /\ pc = "done"
    /\ gen.status = "thrown"
    /\ CountOp(tabOps, "inject") = 1
    /\ Len(responses) = 1
    /\ ~responses[1].ok

\* C10: at most one cross-context operation is in flight at a time; an
\* HTTP request is issued only after the REQUEST_PAGE_CONTEXT reply was
\* received; GEMINI_RESULT is sent only after the generate stage returned
\* and no request is pending; the Initiator is answered only when nothing
\* is pending, and with {ok:true} only after the GEMINI_RESULT send
\* completed.
C10_StrictlySequential ==
    /\ PendingTabOps + PendingFetches + (IF pc = "mockProvider" THEN 1 ELSE 0) <= 1
    /\ httpCount > 0 =>
          \E i \in 1..Len(tabOps) :
              /\ tabOps[i].msg = "REQUEST_PAGE_CONTEXT"
              /\ tabOps[i].op = "send"
              /\ tabOps[i].out = "ok"
    /\ OpsFor("GEMINI_RESULT") # <<>> =>
          /\ gen.status = "returned"
          /\ PendingFetches = 0
          /\ pc \notin {"fetch", "sleep", "mockProvider"}
          /\ GenerateVia(rev, req) = "callGemini" =>
                (hist # <<>> /\ RespOk(hist[Len(hist)]))
    /\ responses # <<>> =>
          /\ PendingTabOps = 0
          /\ PendingFetches = 0
          /\ responses[1].ok =>
                LET last == tabOps[Len(tabOps)] IN
                /\ last.msg = "GEMINI_RESULT"
                /\ last.op = "send"
                /\ last.out = "ok"

\* C10 witness: a request went through the page-context reply, an HTTP
\* call with a retry and the GEMINI_RESULT send, and was answered {ok:true}.
C10_Witness ==
    /\ pc = "done"
    /\ responses = <<Success>>
    /\ Len(hist) >= 2
    /\ OpsFor("GEMINI_RESULT") # <<>>

(***************************************************************************)
(* Properties of what is sent to the page.                                 *)
(***************************************************************************)

\* The render operations (sends and injections) issued for this request.
RenderOps == OpsFor("GEMINI_RESULT")
ContextOps == OpsFor("REQUEST_PAGE_CONTEXT")

\* Payloads that are an array of steps (possibly empty).
StepArrayPayloads == {"StepArray", "EmptyArray", "CannedSteps"}

\* C11: every GEMINI_RESULT message the Coordinator sends carries an array
\* of steps, never a {type, data} envelope, the raw response of the model
\* endpoint or another object.
C11_RenderCarriesStepArray ==
    \A i \in 1..Len(RenderOps) :
        RenderOps[i].op = "send" => RenderOps[i].payload \in StepArrayPayloads

C12_SameTabForContextAndRender ==
    /\ \A i \in 1..Len(tabOps) : tabOps[i].tab = tab
    /\ \A i \in 1..Len(RenderOps), j \in 1..Len(ContextOps) :
          RenderOps[i].tab = ContextOps[j].tab

\* The active tab changed during the model call, and the render message was
\* then delivered after an injection.
C12_Witness ==
    /\ switched
    /\ activeTab # tab
    /\ Len(hist) > 0
    /\ Len(ContextOps) > 0
    /\ Len(RenderOps) = 3
    /\ RenderOps[2].op = "inject"
    /\ RenderOps[3].out = "ok"

(***************************************************************************)
(* Properties of the normalization of the model's output.                  *)
(***************************************************************************)

\* The value parseJson returned for the text.
gParsed == parseJson(gText)
Normalized == gOut.act # "none"

\* The parsed value is an object with both properties, whatever they hold.
HasBothProperties(v) == v.kind = "object" /\ v.type # "absent" /\ v.data # "absent"

\* C14 as stated: an object that has a `type` and a `data` property is
\* returned unchanged, whatever the value of `data`.
C14_EnvelopeReturnedUnchanged ==
    (Normalized /\ HasBothProperties(gParsed))
        => gOut = Returned("unchanged", gParsed.type, gParsed)

\* C14: an object whose `type` and `data` are both truthy (an empty array
\* or object included) is returned unchanged; an object whose `type` or
\* `data` is missing or falsy is never returned as it is.
C14_TruthyEnvelopeReturnedUnchanged ==
    (Normalized /\ gParsed.kind = "object") =>
        IF ~TypeFalsy(gParsed) /\ ~DataFalsy(gParsed)
        THEN gOut = Returned("unchanged", gParsed.type, gParsed)
        ELSE gOut.form # "unchanged"

\* An envelope whose data is the empty array came back as it was.
C14_Witness ==
    /\ Normalized
    /\ gParsed.kind = "object"
    /\ gParsed.data = "emptyArray"
    /\ gOut.form = "unchanged"
    /\ gOut.of = gParsed

ParsingRevision == rev \in {"async", "cb1"}

\* Some completed fetch returned 200 with body b.
Got200(b) == \E i \in 1..Len(hist) : RespOk(hist[i]) /\ hist[i].body = b

\* C16: a 2xx response without generated text makes callGemini fail with
\* the error 'API response was successful but contained no generated text'
\* and return no result.
C16_EmptyTextFails ==
    (ParsingRevision /\ Got200("notext")) =>
        /\ gen.status = "thrown"
        /\ gen.error = NoTextError(rev)
        /\ RespOk(hist[Len(hist)]) /\ hist[Len(hist)].body = "notext"

\* C17: generated text that parseJson cannot parse makes callGemini fail;
\* it returns neither a tour, nor an empty step list, nor an 'unknown'
\* result.
C17_UnparsableTextFails ==
    (ParsingRevision /\ Got200("prose")) =>
        /\ gen.status = "thrown"
        /\ RespOk(hist[Len(hist)]) /\ hist[Len(hist)].body = "prose"

(***************************************************************************)
(* Properties of the Renderer.                                             *)
(***************************************************************************)

\* The entries of the handler's log with operation o.
LogOf(o) == SelectSeq(rLog, LAMBDA x : x.op = o)
LibraryOps == {"load", "normalize", "driver", "drive"}

\* The handler was given a GEMINI_RESULT.
GotResult == rMsg.type = "GEMINI_RESULT"

\* `result` is an array, not empty, of step objects.
ProperSteps ==
    /\ rMsg.result.kind = "array"
    /\ Len(rMsg.result.steps) > 0
    /\ \A i \in 1..Len(rMsg.result.steps) : rMsg.result.steps[i].kind = "object"

\* C18: a GEMINI_RESULT whose result is not an array, or is empty, is
\* answered {ok:false, error} exactly once, and the library is never called.
C18_NoStepsRejected ==
    (GotResult /\ (rMsg.result.kind # "array" \/ rMsg.result.steps = <<>>)) =>
        /\ \A i \in 1..Len(rLog) : rLog[i].op \notin LibraryOps
        /\ Len(LogOf("reply")) <= 1
        /\ rPc = "done" => LogOf("reply") = <<Reply(FALSE, NoStepsError)>>

\* An empty array has been rejected.
C18_Witness ==
    /\ GotResult
    /\ rMsg.result.kind = "array"
    /\ rMsg.result.steps = <<>>
    /\ rPc = "done"
    /\ LogOf("reply") = <<Reply(FALSE, NoStepsError)>>

\* C19: for a non-empty sequence of steps, with the library available, the
\* driver is created exactly once, with as many steps as were received, the
\* i-th made from the i-th, and drive() is called exactly once.
C19_DriverCreatedOnceInOrder ==
    (GotResult /\ ProperSteps /\ rPc = "done" /\ rLib = "ready") =>
        /\ Len(LogOf("driver")) = 1
        /\ Len(LogOf("drive")) = 1
        /\ Len(LogOf("driver")[1].steps) = Len(rMsg.result.steps)
        /\ \A i \in 1..Len(rMsg.result.steps) :
              LogOf("driver")[1].steps[i] = normalizeStep(rRev, rMsg.result.steps[i])

\* A tour of two different steps has been started.
C19_Witness ==
    /\ GotResult
    /\ rPc = "done"
    /\ rLib = "ready"
    /\ Len(rMsg.result.steps) = 2
    /\ rMsg.result.steps[1] # rMsg.result.steps[2]
    /\ Len(LogOf("drive")) = 1

\* The step has no xpath, no selector and no element (or a null one).
HasNoTarget(st) ==
    st.xpath = "" /\ st.selector = "" /\ st.element \in {"absent", "null"}

\* C20: a step without a target is normalized, without a throw, to a step
\* whose element is null and whose popover is present, whatever its
\* waitForInput and nextActions.
C20_NoTargetGivesNullElement ==
    (GotResult /\ ProperSteps) =>
        \A k \in 1..Len(rLog) :
            rLog[k].op = "normalize" =>
                /\ rLog[k].ok
                /\ \A i \in 1..Len(rMsg.result.steps) :
                      HasNoTarget(rMsg.result.steps[i]) =>
                          /\ rLog[k].steps[i].element = "null"
                          /\ rLog[k].steps[i].popover.present

\* A step with waitForInput and nextActions but no target was normalized.
C20_Witness ==
    /\ GotResult
    /\ rRev = "new"
    /\ Len(rMsg.result.steps) = 1
    /\ HasNoTarget(rMsg.result.steps[1])
    /\ rMsg.result.steps[1].waitForInput
    /\ rMsg.result.steps[1].nextActions = "array"
    /\ Len(LogOf("normalize")) = 1
    /\ LogOf("normalize")[1].steps[1].element = "null"

\* The entry point window.driver.js.driver is not there.
EntryPointUnavailable == rLib \in {"missing", "nofactory"}

\* C21: with the library's entry point unavailable, runDriverjs returns
\* without a throw, no traversal is started, and the GEMINI_RESULT message
\* still gets exactly one reply.
C21_UnavailableLibraryStillReplies ==
    (GotResult /\ ProperSteps /\ EntryPointUnavailable) =>
        /\ LogOf("driver") = <<>>
        /\ LogOf("drive") = <<>>
        /\ Len(LogOf("reply")) <= 1
        /\ rPc = "done" => LogOf("reply") = <<Reply(TRUE, "")>>

\* Steps arrived, the page had window.driver without the factory, and the
\* handler replied.
C21_Witness ==
    /\ GotResult
    /\ ProperSteps
    /\ rLib = "nofactory"
    /\ rPc = "done"
    /\ Len(LogOf("normalize")) = 1
    /\ Len(LogOf("reply")) = 1

\* C22: when the library is not available, the tour is shown as one alert
\* per step, in step order.
C22_AlertFallback ==
    (GotResult /\ ProperSteps /\ EntryPointUnavailable /\ rPc = "done") =>
        /\ Len(LogOf("alert")) = Len(rMsg.result.steps)
        /\ \A i \in 1..Len(LogOf("alert")) :
              LogOf("alert")[i].steps = <<normalizeStep(rRev, rMsg.result.steps[i])>>

\* The handler was given a REQUEST_PAGE_CONTEXT.
GotContextRequest == rMsg.type = "REQUEST_PAGE_CONTEXT"

ListenerLogOf(op) == SelectSeq(lLog, LAMBDA e : e.op = op)
InjectionOps == {"insertCSS", "executeScript"}
GotInjectDriver == lMsg.type = "INJECT_DRIVER" /\ rev \in {"cb1", "cb2"}
InjectPending == GotInjectDriver /\ lPc \in {"insertCSS", "executeScript"}
InjectAnswered == GotInjectDriver /\ lPc = "done" /\ Len(ListenerLogOf("reply")) = 1

\* The order of the injections and of the reply to INJECT_DRIVER: only the
\* sender's tab is injected into, the script is injected right after the
\* stylesheet's success and never otherwise, {ok:true} follows two
\* successes, a failure is followed by {ok:false, error} and nothing else,
\* and a sender without a tab gets {ok:false} and no injection.
InjectionOrdered ==
    GotInjectDriver =>
        /\ \A i \in 1..Len(lLog) :
             /\ lLog[i].op \in InjectionOps =>
                    lLog[i].tab = lMsg.sender /\ lMsg.sender # NoTab
             /\ lLog[i].op = "insertCSS" => i = 1
             /\ lLog[i].op = "executeScript" =>
                    i = 3 /\ lLog[1].op = "insertCSS" /\ lLog[2] = Settled("ok")
             /\ (lLog[i].op = "settled" /\ ~lLog[i].ok) =>
                    /\ Len(lLog) = i + 1
                    /\ lLog[i + 1] = ListenerReply(FALSE, lLog[i].error)
             /\ (lLog[i].op = "reply" /\ lLog[i].ok) =>
                    /\ i = 5 /\ Len(lLog) = 5
                    /\ lLog[2] = Settled("ok") /\ lLog[4] = Settled("ok")
                    /\ lLog[3].op = "executeScript"
             /\ lLog[i].op = "reply" => i = Len(lLog) /\ lPc = "done"
        /\ lMsg.sender = NoTab => lLog = <<ListenerReply(FALSE, NoTabIdError)>>
        /\ Len(ListenerLogOf("reply")) <= 1
        /\ lPc = "done" => Len(ListenerLogOf("reply")) = 1

\* C24: on INJECT_DRIVER the stylesheet and then the script are injected
\* into the sender's tab only, the script only after the stylesheet
\* succeeded; {ok:true} is sent only after both succeeded, {ok:false, error}
\* if either fails, {ok:false} with no injection when the sender has no tab
\* id; every INJECT_DRIVER message is answered, exactly once.
C24_InjectDriverOrdered == []InjectionOrdered /\ (InjectPending ~> InjectAnswered)

C24_Witness ==
    /\ InjectAnswered
    /\ lMsg.sender # activeTab
    /\ lLog = <<Injection("insertCSS", lMsg.sender), Settled("ok"),
                Injection("executeScript", lMsg.sender), Settled("ok"),
                ListenerReply(TRUE, "")>>

GotPredefinedTours == lMsg.type = "PREDEFINED_TOURS" /\ rev = "async"
LoadErrors == LoadOutcomes \ {"ok"}

\* The reply to PREDEFINED_TOURS: the records of the dataset whose url is a
\* substring of the message's url, in the dataset's order, or
\* {ok:false, error} with the error of the failed load (or, for a message
\* without url, of the call of includes on undefined).
ToursAnswered ==
    GotPredefinedTours =>
        /\ \A i \in 1..Len(lLog) : lLog[i].op = "reply"
        /\ Len(lLog) <= 1
        /\ lPc = "done" =>
              /\ Len(lLog) = 1
              /\ \/ /\ lMsg.url \in PageUrls
                    /\ lLog[1] = ToursReply(SelectSeq(lData,
                                     LAMBDA t : Includes(lMsg.url, t.url)))
                 \/ /\ lLog[1].error \in LoadErrors
                    /\ lLog[1] = ListenerReply(FALSE, lLog[1].error)
                 \/ /\ lMsg.url = NoUrl
                    /\ lLog[1] = ListenerReply(FALSE, IncludesOfUndefined)

\* C25: getPredefinedTourForURL(url) returns exactly the dataset's records
\* whose url is a substring of the given URL, in dataset order, and leaves
\* the dataset unchanged; the PREDEFINED_TOURS handler replies
\* {ok:true, tours} with that list, or {ok:false, error} when loading fails.
C25_MatchingToursInOrder == []ToursAnswered /\ [][lData' = lData]_vars

\* One of two records matched and was sent.
C25_Witness ==
    /\ GotPredefinedTours
    /\ lPc = "done"
    /\ Len(lData) = 2
    /\ lMsg.url = "https://example.com/signup"
    /\ lLog = <<ToursReply(<<lData[2]>>)>>

\* parseJson returned for the argument.
Parsed == gOut.act = "return" /\ gOut.form = "parsed"
IsStringified == \E v \in JsonValues : gText = Stringify(v)
NothingToParse ==
    \/ gText.wrap \in {"notString", "looseFence", "twoFences"}
    \/ gText.inner = Malformed

ContextNotEmpty == qCtx.given /\ (qCtx.title # "" \/ qCtx.url # "" \/ qCtx.snippet > 0)

\* C27: for every page context with a non-empty title, url or textSnippet
\* the text of the outbound request contains the page-context block with
\* that title and url and with the first min(8000, length) characters of
\* the snippet, never more than 8000 of them.
C27_ContextBlockInRequest ==
    (qText.built /\ ContextNotEmpty) =>
        /\ qText.block
        /\ qText.title = qCtx.title
        /\ qText.url = qCtx.url
        /\ qText.snippet = Slice(qCtx.snippet)
        /\ qText.snippet <= MAX_CONTEXT_SNIPPET_LENGTH

\* The types of the taxonomy among the listener's messages, and the
\* listener has returned from the message.
TaxonomyTypes == ListenerTypes \ {"GET_STATUS"}
ListenerReturned == lPc = "done" /\ lMsg.type \in ListenerTypes

\* C28: a message of a type of the taxonomy is dispatched to a handler that
\* answers it once, in the revision whose listener names the type and, for
\* FILL_FORM_INPUTS, in every revision; a message of an unrecognised type
\* causes no injection and no reply.
C28_EveryTypeAnswered ==
    ListenerReturned =>
        /\ lMsg.type \in {HandledBy(rev), "FILL_FORM_INPUTS"} =>
               Len(ListenerLogOf("reply")) = 1
        /\ lMsg.type \notin TaxonomyTypes => lLog = <<>>

\* Entries of the popup's log with the given operation.
PopupLogOf(op) == SelectSeq(uLog, LAMBDA e : e.op = op)
FieldEmpty == Trim(uIn.key) = "" \/ Trim(uIn.prompt) = ""

\* The callback found lastError or an {ok:false} response, and the error
\* message the popup has for it.
Refused(cb) == cb.lastError # "" \/ (cb.response.given /\ ~cb.response.ok)
RefusalMessage(cb) ==
    IF cb.lastError # "" THEN cb.lastError
    ELSE IF cb.response.error # "" THEN cb.response.error
    ELSE UnknownFailure
MessageOfAlert(cb) ==
    IF cb.lastError # "" THEN "Runtime error: " \o cb.lastError ELSE RefusalMessage(cb)

\* C29: an {ok:false} response or a runtime send error is surfaced as an
\* alert containing the error message and the popup is not closed; the
\* popup is closed only after a response that is not {ok:false}; with an
\* empty key or prompt nothing is saved and nothing is sent; at most one
\* GENERATE_TOUR message is sent per click; the loading state is removed on
\* every path.
C29_ClickOutcomeSurfaced ==
    /\ \A i \in 1..Len(uLog) :
         /\ (uLog[i].op = "callback" /\ Refused(uLog[i].cb)) =>
                /\ Len(uLog) > i
                /\ uLog[i + 1] = Did("alert", FailedAlert(MessageOfAlert(uLog[i].cb)))
                /\ PopupLogOf("close") = <<>>
         /\ uLog[i].op = "close" =>
                i > 1 /\ uLog[i - 1].op = "callback" /\ ~Refused(uLog[i - 1].cb)
    /\ FieldEmpty => PopupLogOf("save") = <<>> /\ PopupLogOf("send") = <<>>
    /\ Len(PopupLogOf("send")) <= 1
    /\ Len(PopupLogOf("addLoading")) <= 1
    /\ uPc = "done" =>
          /\ uLog[1] = Did("addLoading", "")
          /\ uLog[Len(uLog)] = Did("removeLoading", "")

\* The background answered {ok:false, error}: the alert was shown and the
\* popup stayed open.
C29_Witness ==
    /\ uPc = "done"
    /\ Len(PopupLogOf("send")) = 1
    /\ \E i \in 1..Len(uLog) :
         /\ uLog[i].op = "callback"
         /\ uLog[i].cb.response = [given |-> TRUE, ok |-> FALSE, error |-> NoStepsError]
    /\ PopupLogOf("alert") = <<Did("alert", FailedAlert(NoStepsError))>>
    /\ PopupLogOf("close") = <<>>

\* The `result` the Renderer finds in a GEMINI_RESULT message with the
\* given payload.
ResultOfPayload(p) ==
    IF p \in {"StepArray", "CannedSteps"}
    THEN [kind |-> "array",
          steps |-> <<Step("", "absent", ".next", "absent", "Welcome", FALSE, "absent")>>]
    ELSE IF p = "EmptyArray" THEN [kind |-> "array", steps |-> <<>>]
    ELSE [kind |-> "object", steps |-> <<>>]

\* The Renderer's reply to that message: NoSteps unless the result is a
\* non-empty array.
RendererReplyTo(r, p) ==
    IF HasSteps(StepsOfMessage(r, ResultOfPayload(p)))
    THEN Reply(TRUE, "")
    ELSE Reply(FALSE, NoStepsError)
RendererAccepted(op) ==
    \A r \in RendererRevisions : RendererReplyTo(r, op.payload).ok
DeliveredRenders == SelectSeq(RenderOps, LAMBDA x : x.op = "send" /\ x.out = "ok")

\* C30: the Coordinator responds {ok:true} to GENERATE_TOUR only if the
\* Renderer's reply to the GEMINI_RESULT message was {ok:true}; whenever
\* the Renderer replied {ok:false}, the response is {ok:false, error}.
C30_OkOnlyIfRendererAccepted ==
    /\ \A i \in 1..Len(responses) :
         responses[i].ok =>
             \E j \in 1..Len(DeliveredRenders) : RendererAccepted(DeliveredRenders[j])
    /\ \A j \in 1..Len(DeliveredRenders) :
         (pc = "done" /\ ~RendererAccepted(DeliveredRenders[j])) =>
             /\ Len(responses) = 1
             /\ ~responses[1].ok
             /\ responses[1].error # ""

\* The sends of a message type among the tab operations, and whether one
\* of them was delivered.
SendsOf(ops) == SelectSeq(ops, LAMBDA x : x.op = "send")
ContextDelivered == \E i \in 1..Len(ContextOps) :
                        ContextOps[i].op = "send" /\ ContextOps[i].out = "ok"

\* A later stage has run only after the stages before it succeeded, and
\* each message is sent at most twice.
StagesInOrder ==
    /\ (httpCount > 0 \/ RenderOps # <<>>) => ContextDelivered
    /\ gen.status = "thrown" => RenderOps = <<>>
    /\ Len(SendsOf(ContextOps)) <= 2
    /\ Len(SendsOf(RenderOps)) <= 2

\* Within a request, callGemini is entered once and before any render
\* message, and the page context is not requested again once the model
\* call has begun, nor the model called again once the render message is
\* being sent.
NoStageRerun ==
    /\ (attempt = 0 /\ attempt' = 1) => (httpCount = 0 /\ RenderOps = <<>>)
    /\ (attempt > 0 /\ attempt' > 0) => Len(ContextOps') = Len(ContextOps)
    /\ (RenderOps # <<>> /\ RenderOps' # <<>>) =>
           (httpCount' = httpCount /\ Len(ContextOps') = Len(ContextOps))

\* C31: a failure at one stage of a GENERATE_TOUR request prevents all
\* later stages: without a delivered REQUEST_PAGE_CONTEXT no HTTP request
\* is issued and no GEMINI_RESULT is sent; when the model call fails no
\* GEMINI_RESULT is sent; no stage is run again after a later one, and
\* REQUEST_PAGE_CONTEXT is sent at most twice.
C31_FailureStopsLaterStages == []StagesInOrder /\ [][NoStageRerun]_vars

\* The page-context message failed again after the injection, and the
\* request ended there.
C31_Witness ==
    /\ pc = "done"
    /\ Len(SendsOf(ContextOps)) = 2
    /\ ~ContextDelivered
    /\ httpCount = 0
    /\ RenderOps = <<>>
    /\ Len(responses) = 1
    /\ ~responses[1].ok

\* The outcome of a fetch after which the claim allows another request.
Transient(o) == o.kind = "network" \/ ServerError(o)

\* C32: in callGemini a further HTTP request follows only a response with
\* status >= 500 or a network-level failure; after a 4xx response and after
\* a 2xx response, whatever its text, no further request is issued.
C32_RetryOnlyAfterTransient ==
    \A i \in 1..Len(hist) : i < httpCount => Transient(hist[i])

\* C33 as stated: for a non-mock request the credential is read and checked
\* before REQUEST_PAGE_CONTEXT is sent; when it is absent, no message was
\* sent to the tab and nothing injected before the {ok:false} response.
C33_CredentialCheckedFirst ==
    NonMock =>
        /\ tabOps # <<>> => apiKey = "key"
        /\ apiKey = "absent" =>
              /\ tabOps = <<>>
              /\ pc = "done"
              /\ responses = <<Failure(NoKeyError(rev))>>

\* C33: handleGenerateTour of part_002 reads and checks the credential
\* before it sends REQUEST_PAGE_CONTEXT, so with an absent credential
\* nothing is sent to the tab; the listeners of background.js read it only
\* after the page context was delivered (with the injection that may take).
\* In every revision an absent credential ends the request {ok:false}
\* before any HTTP request and any GEMINI_RESULT.
C33_CredentialCheckedBeforeModel ==
    NonMock =>
        /\ rev = "async" => (tabOps # <<>> => apiKey = "key")
        /\ rev # "async" => (apiKey # "unread" => ContextDelivered)
        /\ apiKey = "absent" =>
              /\ httpCount = 0
              /\ RenderOps = <<>>
              /\ pc = "done"
              /\ responses = <<Failure(NoKeyError(rev))>>

\* A callback revision injected the content script and got the page
\* context before it found the credential absent.
C33_Witness ==
    /\ NonMock
    /\ rev = "cb1"
    /\ apiKey = "absent"
    /\ pc = "done"
    /\ ContextDelivered
    /\ \E i \in 1..Len(tabOps) : tabOps[i].op = "inject"
    /\ responses = <<Failure(NoKeyError(rev))>>

\* The click's GENERATE_TOUR message has been sent.
ClickSent == PopupLogOf("send") # <<>>

\* C34: the credential is written to storage before GENERATE_TOUR is sent,
\* so the Coordinator's storage read for the request finds the credential
\* submitted with the click, never none and never an earlier one, and the
\* request is never answered with the missing-credential error.
C34_SubmittedKeyIsRead ==
    /\ ClickSent => uStore = Trim(uIn.key) /\ uStore # ""
    /\ uRead # "unread" => ClickSent /\ uRead = Trim(uIn.key)
    /\ \A i \in 1..Len(uLog) :
         uLog[i].op = "callback" => ~MissingKeyResponse(uLog[i].cb.response)

\* An earlier key was in storage, and the Coordinator read the new one.
C34_Witness ==
    /\ uIn.key = " AIza-key "
    /\ uRead = "AIza-key"
    /\ uStore = "AIza-key"
    /\ uPc = "done"
    /\ PopupLogOf("close") # <<>>

(***************************************************************************)
(* Two overlapping GENERATE_TOUR requests.  handleGenerateTour is an async *)
(* function: every call has its own tab, apiKey, pageContext and apiResp,  *)
(* and every callGemini call its own `attempt`; the calls interleave at    *)
(* their awaits.                                                           *)
(***************************************************************************)

\* The two messages, in the order of their arrival.
Requests == {1, 2}

\* Outcomes of the platform calls of one request.
OverlapSendOutcomes ==
    {"ok", "Receiving end does not exist.",
     "The message port closed before a response was received."}
OverlapHttpOutcomes ==
    {[kind |-> "network", status |-> 0, body |-> "none"],
     [kind |-> "response", status |-> 200, body |-> "text"],
     [kind |-> "response", status |-> 400, body |-> "errbody"],
     [kind |-> "response", status |-> 503, body |-> "errbody"]}

\* The locals of a handleGenerateTour call that has not started.
NoLocals ==
    [pc |-> "none", tab |-> NoTab, msg |-> "none", ops |-> <<>>, http |-> 0,
     payload |-> "none", resp |-> <<>>]

\* Variant: `attempt` is one counter of the module.
AttemptCell_Shared(i) == 1

\* `let attempt` of the loop: the counter belongs to the call of request i.
AttemptCell(i) == i

\* sendResponse(r) ends the call.
Answered(q, r) == [q EXCEPT !.pc = "done", !.msg = "none", !.resp = Append(@, r)]

\* The last issued tab operation of the call completed with outcome o.
Settle(q, o) == [q EXCEPT !.ops = Completed(@, o)]

\* sendMessageWithInjectionRetry(tabId, {type: m, ...}) is called.
Sending(q, m, p) ==
    [q EXCEPT !.pc = "sendFirst", !.msg = m, !.payload = p,
              !.ops = Append(@, TabOp("send", m, RenderTarget(q.tab, oActive), p))]

\* The helper returned: generateTour is called after the page context,
\* sendResponse({ok: true}) after the render message.
HelperReturned(q) ==
    IF q.msg = "REQUEST_PAGE_CONTEXT"
    THEN [q EXCEPT !.pc = "fetch", !.msg = "none", !.http = @ + 1]
    ELSE Answered(q, Success)

\* The call of request i goes on with locals q; a callGemini call that
\* starts sets its counter to 1.
Continue(i, q) ==
    /\ oReq' = [oReq EXCEPT ![i] = q]
    /\ oAttempt' = IF q.pc = "fetch" /\ oReq[i].pc \in {"sendFirst", "sendRetry"}
                   THEN [oAttempt EXCEPT ![AttemptCell(i)] = 1]
                   ELSE oAttempt

OverlapInit ==
    /\ rev = "async"
    /\ activeTab = NoTab
    /\ storedKey \in BOOLEAN
    /\ HandlerIdle
    /\ GatewayIdle
    /\ RendererIdle
    /\ ListenerIdle
    /\ PromptIdle
    /\ PopupIdle
    /\ oReq = [i \in Requests |-> NoLocals]
    /\ oAttempt = [i \in Requests |-> 0]
    /\ oActive \in Tabs \cup {NoTab}
    /\ TourIdle

OverlapUnchanged == UNCHANGED <<coVars, gwVars, rdVars, lsVars, pmVars, puVars, tkVars>>

\* The user activates another tab, or closes the last window.
OverlapActivateTab ==
    /\ \E t \in (Tabs \cup {NoTab}) \ {oActive} : oActive' = t
    /\ UNCHANGED <<oReq, oAttempt>>
    /\ OverlapUnchanged

\* Message i reaches the listener; the second one while the first is in
\* flight.
OverlapReceive(i) ==
    /\ oReq[i].pc = "none"
    /\ i = 2 => oReq[1].pc \notin {"none", "done"}
    /\ Continue(i, [oReq[i] EXCEPT !.pc = "tabQuery"])
    /\ UNCHANGED oActive
    /\ OverlapUnchanged

\* getActiveTab() of call i returns or throws.
OverlapTabQueryDone(i) ==
    /\ oReq[i].pc = "tabQuery"
    /\ LET q == [oReq[i] EXCEPT !.tab = oActive] IN
       IF InvalidTab(oActive)
       THEN Continue(i, Answered(q, Failure(NoTabError("async"))))
       ELSE Continue(i, [q EXCEPT !.pc = "storage"])
    /\ UNCHANGED oActive
    /\ OverlapUnchanged

\* getApiKey() of call i returns or throws.
OverlapStorageGetDone(i) ==
    /\ oReq[i].pc = "storage"
    /\ IF CredentialMissing("async", IF storedKey THEN "key" ELSE "absent", req)
       THEN Continue(i, Answered(oReq[i], Failure(NoKeyError("async"))))
       ELSE Continue(i, Sending(oReq[i], "REQUEST_PAGE_CONTEXT", "none"))
    /\ UNCHANGED oActive
    /\ OverlapUnchanged

OverlapFirstSendDone(i) ==
    /\ oReq[i].pc = "sendFirst"
    /\ \E o \in OverlapSendOutcomes :
         LET q == Settle(oReq[i], o) IN
         CASE AfterFirstSend(o) = "return" -> Continue(i, HelperReturned(q))
           [] AfterFirstSend(o) = "inject" ->
                Continue(i, [q EXCEPT !.pc = "inject",
                                      !.ops = Append(@, TabOp("inject", q.msg, q.tab, "none"))])
           [] AfterFirstSend(o) = "fail" ->
                Continue(i, Answered(q, Failure(FirstSendError("async", o))))
    /\ UNCHANGED oActive
    /\ OverlapUnchanged

OverlapInjectionDone(i) ==
    /\ oReq[i].pc = "inject"
    /\ \E o \in InjectOutcomes :
         LET q == Settle(oReq[i], o) IN
         CASE AfterInjection(o) = "retry" ->
                Continue(i, [q EXCEPT !.pc = "sendRetry",
                                      !.ops = Append(@, TabOp("send", q.msg, q.tab, q.payload))])
           [] AfterInjection(o) = "fail" ->
                Continue(i, Answered(q, Failure(InjectionError("async", q.msg, o))))
    /\ UNCHANGED oActive
    /\ OverlapUnchanged

OverlapRetrySendDone(i) ==
    /\ oReq[i].pc = "sendRetry"
    /\ \E o \in OverlapSendOutcomes :
         LET q == Settle(oReq[i], o) IN
         CASE AfterRetrySend(o) = "return" -> Continue(i, HelperReturned(q))
           [] AfterRetrySend(o) = "fail" ->
                Continue(i, Answered(q, Failure(RetrySendError("async", q.msg, o))))
    /\ UNCHANGED oActive
    /\ OverlapUnchanged

\* One fetch of call i's callGemini completes.
OverlapFetchDone(i) ==
    /\ oReq[i].pc = "fetch"
    /\ \E o \in OverlapHttpOutcomes :
         LET step == AttemptStep("async", o, oAttempt[AttemptCell(i)])
             g == Generate("async", BodyText(o.body))
             q == oReq[i]
         IN
         CASE step.act = "return" ->
                IF g.act = "return"
                THEN Continue(i, Sending(q, "GEMINI_RESULT", g.payload))
                ELSE Continue(i, Answered(q, Failure(GenerationError("async", g.error))))
           [] step.act = "sleep" -> Continue(i, [q EXCEPT !.pc = "sleep"])
           [] step.act = "throw" ->
                Continue(i, Answered(q, Failure(GenerationError("async", step.error))))
    /\ UNCHANGED oActive
    /\ OverlapUnchanged

\* The backoff sleep of call i ends: attempt++ and the loop test.
OverlapSleepDone(i) ==
    /\ oReq[i].pc = "sleep"
    /\ LET a == oAttempt[AttemptCell(i)] + 1
           q == oReq[i]
       IN
       IF a <= MAX_RETRIES
       THEN /\ oReq' = [oReq EXCEPT ![i] = [q EXCEPT !.pc = "fetch", !.http = @ + 1]]
            /\ oAttempt' = [oAttempt EXCEPT ![AttemptCell(i)] = a]
       ELSE /\ oReq' = [oReq EXCEPT ![i] =
                          Answered(q, Failure(GenerationError("async", FallThroughError("async"))))]
            /\ oAttempt' = [oAttempt EXCEPT ![AttemptCell(i)] = a]
    /\ UNCHANGED oActive
    /\ OverlapUnchanged

OverlapNext ==
    \/ OverlapActivateTab
    \/ \E i \in Requests :
         \/ OverlapReceive(i)
         \/ OverlapTabQueryDone(i)
         \/ OverlapStorageGetDone(i)
         \/ OverlapFirstSendDone(i)
         \/ OverlapInjectionDone(i)
         \/ OverlapRetrySendDone(i)
         \/ OverlapFetchDone(i)
         \/ OverlapSleepDone(i)

OverlapSpec == OverlapInit /\ [][OverlapNext]_vars

\* Operations of a call for message type m.
OpsOfCall(q, m) == SelectSeq(q.ops, LAMBDA x : x.msg = m)

\* The render message of the call was delivered.
RenderDelivered(q) ==
    /\ q.ops # <<>>
    /\ q.ops[Len(q.ops)].msg = "GEMINI_RESULT"
    /\ q.ops[Len(q.ops)].op = "send"
    /\ q.ops[Len(q.ops)].out = "ok"

\* What holds of each of the two calls, whatever the other one does.
CallIsolated(q) ==
    /\ Len(q.resp) <= 1
    /\ q.pc = "done" <=> Len(q.resp) = 1
    /\ \A k \in 1..Len(q.ops) : q.ops[k].tab = q.tab /\ q.tab # NoTab
    /\ q.http <= MAX_RETRIES
    /\ \A m \in {"REQUEST_PAGE_CONTEXT", "GEMINI_RESULT"} :
         /\ CountOp(OpsOfCall(q, m), "inject") <= 1
         /\ CountOp(OpsOfCall(q, m), "send") <= 2
    /\ q.pc = "done" => (q.resp = <<Success>> <=> RenderDelivered(q))

\* A step of one call leaves the locals of the other call alone.
OneCallSteps ==
    \A i \in Requests : \A j \in Requests \ {i} :
        oReq'[i] # oReq[i] => oReq'[j] = oReq[j]

\* C35: two overlapping GENERATE_TOUR requests share no mutable state: each
\* gets exactly one response, each sends only to the tab it resolved itself,
\* each makes at most 3 HTTP requests and at most one injection per send,
\* and the response of each is decided by its own operations alone.
C35_OverlappingRequestsIsolated ==
    /\ [](oReq # <<>> => \A i \in Requests : CallIsolated(oReq[i]))
    /\ [][oReq # <<>> => OneCallSteps]_vars

\* The first request used up its three HTTP requests and failed while the
\* second, started meanwhile in another tab, was delivered after an
\* injection.
C35_Witness ==
    /\ oReq # <<>>
    /\ oReq[1].pc = "done" /\ oReq[2].pc = "done"
    /\ oReq[1].http = MAX_RETRIES /\ ~oReq[1].resp[1].ok
    /\ oReq[2].resp = <<Success>>
    /\ oReq[2].http = 1
    /\ oReq[1].tab # oReq[2].tab
    /\ CountOp(oReq[2].ops, "inject") = 1

\* What callGemini of part_005 returned for the last response, when that
\* response had a body with generated text.
LastResult == Normalize(parseJson(BodyText(hist[Len(hist)].body)), NoTour)

\* callGemini returned a result that is neither a tour nor a
\* fill_input_form and whose data is not an array.
UnknownReturned ==
    /\ rev = "async"
    /\ hist # <<>>
    /\ RespOk(hist[Len(hist)])
    /\ hist[Len(hist)].body \in {"text", "fillform", "plainobject"}
    /\ LastResult.act = "return"
    /\ LastResult.type \notin {"tour", "fill_input_form"}
    /\ ~DataIsArray(LastResult)

\* C36: when callGemini returns a result of type 'unknown' (or of any type
\* other than tour and fill_input_form) whose data is not an array,
\* generateTour throws, no GEMINI_RESULT message is sent, and the request
\* is answered {ok:false, error}.
C36_UnknownResultFails ==
    UnknownReturned =>
        /\ gen.status = "thrown"
        /\ gen.error = ExpectedStepsError(LastResult)
        /\ RenderOps = <<>>
        /\ pc = "done"
        /\ Len(responses) = 1
        /\ ~responses[1].ok
        /\ responses[1].error = GenerationError(rev, gen.error)

\* The first response carried a bare object: one HTTP request, no render
\* message, and the failure names the type 'unknown'.
C36_Witness ==
    /\ UnknownReturned
    /\ httpCount = 1
    /\ ContextDelivered
    /\ responses = <<Failure("AI generation failed: Expected tour steps but got type: unknown")>>

\* The sequences of steps handed to the library's driver(...).
HandedToLibrary == {LogOf("driver")[k].steps : k \in 1..Len(LogOf("driver"))}

\* C39: every step handed to the highlighting library has a popover whose
\* title and description are both strings: one that is missing from the
\* input step, given flat or with a partial popover object, is the empty
\* string.
C39_PopoverTextIsString ==
    \A q \in HandedToLibrary : \A i \in 1..Len(q) :
        /\ q[i].popover.present
        /\ q[i].popover.title # "undefined"
        /\ q[i].popover.description # "undefined"

(***************************************************************************)
(* A running tour: the callbacks normalizeDriverSteps (part_000:246-285)   *)
(* attaches to a step, called by the highlighting library.  The library    *)
(* calls onHighlightStarted when it displays the step, and calls           *)
(* popover.onNextClick in place of its own advance when the user presses   *)
(* Next; moveNext() displays the following step, moveTo(i) step i, and a   *)
(* move past the last step ends the tour.                                  *)
(***************************************************************************)

\* Longest nextActions list.
MaxActions == 2

\* User events (Next, Previous, leaving the field) in one run.
MaxUserEvents == 3

\* Entries of nextActions: a click whose xpath resolves, one whose xpath
\* resolves to nothing, one without xpath, and an action of another kind.
ActionPool ==
    {[action |-> "click", xpath |-> "//a[1]", found |-> TRUE],
     [action |-> "click", xpath |-> "//a[2]", found |-> TRUE],
     [action |-> "click", xpath |-> "//gone", found |-> FALSE],
     [action |-> "click", xpath |-> "", found |-> FALSE],
     [action |-> "hover", xpath |-> "//a[1]", found |-> TRUE]}

ActionLists == UNION {SeqsOver(ActionPool, n) : n \in 0..MaxActions}

\* nextActions is missing, or an array.
NoActions == [isArray |-> FALSE, list |-> <<>>]
NextActionsValues == {NoActions} \cup {[isArray |-> TRUE, list |-> l] : l \in ActionLists}

\* The step with callbacks: its index, its flags and whether its xpath
\* resolves to an element of the page.
CallbackSteps ==
    [index : {0, 1}, waitForInput : BOOLEAN, inputValue : {"", "jane@example.com"},
     found : BOOLEAN, nextActions : NextActionsValues]

TEntry(o, k, w) == [op |-> o, at |-> k, what |-> w]
Timer(c, k) == [call |-> c, arg |-> k]

UserOps == {"userNext", "userPrevious", "blur"}
UserEvents(log) == Len(SelectSeq(log, LAMBDA x : x.op \in UserOps))

RECURSIVE Repeat(_, _)
\* n copies of x.
Repeat(x, n) == IF n = 0 THEN <<>> ELSE <<x>> \o Repeat(x, n - 1)

\* Variant: the value is not set when the step is displayed.
InjectOnHighlight_Never(s) == <<>>

\* checkInput, first part: the value provided is set on the element and
\* the input and change events are dispatched.
InjectOnHighlight(s) ==
    IF s.found /\ s.inputValue # ""
    THEN <<TEntry("inject", s.index, s.inputValue), TEntry("event", s.index, "input"),
           TEntry("event", s.index, "change")>>
    ELSE <<>>

\* checkInput, second part: one blur listener is added to the element.
ListenersAdded(s) == IF s.found THEN 1 ELSE 0

\* Variant: the listener stays after it has fired.
AfterBlur_Persistent(n) == n

\* `{ once: true }`: the listeners that fired are removed.
AfterBlur(n) == 0

\* The step at index k has the onHighlightStarted callback.
HasCheckInput(s, k) == k = s.index /\ s.waitForInput

\* The step at index k has the onNextClick callback.
HasOnNextClick(s, k) == k = s.index /\ s.nextActions.isArray

\* `action.action === 'click' && action.xpath`, and the element is found.
Clicks(a) == a.action = "click" /\ a.xpath # "" /\ a.found

\* onNextClick: what the forEach over nextActions does, in list order.
ClicksOf(list) ==
    LET hits == SelectSeq(list, Clicks) IN
    [k \in 1..Len(hits) |-> TEntry("click", 0, hits[k].xpath)]
TimersOf(list) == Repeat(Timer("moveNext", 0), Len(SelectSeq(list, Clicks)))

\* The library displays step k, or ends the tour when there is none.
Display(k, log) ==
    IF k < 0 \/ k >= TourLen
    THEN /\ tCur' = NoStep
         /\ tLog' = Append(log, TEntry("destroy", k, ""))
         /\ tBlur' = tBlur
    ELSE /\ tCur' = k
         /\ tLog' = Append(log, TEntry("show", k, ""))
                      \o (IF HasCheckInput(tStep, k) THEN InjectOnHighlight(tStep) ELSE <<>>)
         /\ tBlur' = tBlur + (IF HasCheckInput(tStep, k) THEN ListenersAdded(tStep) ELSE 0)

TourInit ==
    /\ rev = "async"
    /\ activeTab = NoTab
    /\ CoordinatorIdle
    /\ GatewayIdle
    /\ RendererIdle
    /\ ListenerIdle
    /\ PromptIdle
    /\ PopupIdle
    /\ OverlapIdle
    /\ tStep \in CallbackSteps
    /\ tCur = NoStep
    /\ tTimers = <<>>
    /\ tLog = <<>>
    /\ tBlur = 0

TourUnchanged == UNCHANGED <<coVars, gwVars, rdVars, lsVars, pmVars, puVars, ovVars, tStep>>

\* driverObj.drive(): the first step is displayed.
Drive ==
    /\ tLog = <<>>
    /\ Display(0, tLog)
    /\ UNCHANGED tTimers
    /\ TourUnchanged

\* The user presses Next: the step's onNextClick when it has one, the
\* library's own advance otherwise.
UserNext ==
    /\ tCur # NoStep
    /\ UserEvents(tLog) < MaxUserEvents
    /\ LET log == Append(tLog, TEntry("userNext", tCur, "")) IN
       IF HasOnNextClick(tStep, tCur)
       THEN /\ tLog' = log \o ClicksOf(tStep.nextActions.list)
            /\ tTimers' = tTimers \o TimersOf(tStep.nextActions.list)
            /\ UNCHANGED <<tCur, tBlur>>
       ELSE /\ Display(tCur + 1, log)
            /\ UNCHANGED tTimers
    /\ TourUnchanged

\* The user presses Previous.
UserPrevious ==
    /\ tCur # NoStep
    /\ tCur > 0
    /\ UserEvents(tLog) < MaxUserEvents
    /\ Display(tCur - 1, Append(tLog, TEntry("userPrevious", tCur, "")))
    /\ UNCHANGED tTimers
    /\ TourUnchanged

\* The step's element loses focus: every listener on it runs and schedules
\* moveTo(stepIndex + 1).
ElementBlur ==
    /\ tLog # <<>>
    /\ tStep.found
    /\ UserEvents(tLog) < MaxUserEvents
    /\ tLog' = Append(tLog, TEntry("blur", tStep.index, ""))
    /\ tTimers' = tTimers \o Repeat(Timer("moveTo", tStep.index + 1), tBlur)
    /\ tBlur' = AfterBlur(tBlur)
    /\ UNCHANGED tCur
    /\ TourUnchanged

\* The oldest pending timeout (all wait 500 ms) runs its move; a move
\* called when the tour is over displays nothing.
TimerFires ==
    /\ tTimers # <<>>
    /\ tTimers' = Tail(tTimers)
    /\ LET t == Head(tTimers)
           log == Append(tLog, TEntry("timer", t.arg, t.call))
       IN
       IF tCur = NoStep
       THEN /\ tLog' = Append(tLog, TEntry("late", t.arg, t.call))
            /\ UNCHANGED <<tCur, tBlur>>
       ELSE Display(IF t.call = "moveNext" THEN tCur + 1 ELSE t.arg, log)
    /\ TourUnchanged

TourNext ==
    \/ Drive
    \/ UserNext
    \/ UserPrevious
    \/ ElementBlur
    \/ TimerFires

TourSpec == TourInit /\ [][TourNext]_vars

\* Position of the last user event in the log, 0 when there is none.
LastUserEvent ==
    LET S == {k \in 1..Len(tLog) : tLog[k].op \in UserOps} IN
    IF S = {} THEN 0 ELSE CHOOSE k \in S : \A j \in S : j <= k

\* The log after position k.
LogAfter(k) == SubSeq(tLog, k + 1, Len(tLog))

\* The user's last event was Next on the step with nextActions, pressed
\* once, the step's element kept the focus, and every timeout scheduled
\* has run.
AdvancedPastActions ==
    /\ tStep # <<>>
    /\ LastUserEvent > 0
    /\ tLog[LastUserEvent].op = "userNext"
    /\ tLog[LastUserEvent].at = tStep.index
    /\ Len(SelectSeq(tLog, LAMBDA x : x.op = "userNext" /\ x.at = tStep.index)) = 1
    /\ SelectSeq(tLog, LAMBDA x : x.op = "blur") = <<>>
    /\ tStep.nextActions.isArray
    /\ tTimers = <<>>

\* C37: when the user advances past a step with nextActions, each click
\* action whose locator resolves is dispatched once, in list order, and
\* the tour then advances by exactly one step, however many actions are
\* listed and however many of their locators resolve.
C37_ActionsThenOneStep ==
    AdvancedPastActions =>
        /\ SelectSeq(LogAfter(LastUserEvent), LAMBDA x : x.op = "click")
             = ClicksOf(tStep.nextActions.list)
        /\ tCur = tStep.index + 1

\* Positions of the log with operation o.
Where(o) == {k \in 1..Len(tLog) : tLog[k].op = o}

\* The times the waitForInput step was displayed.
Displays == {k \in Where("show") : tLog[k].at = tStep.index}

\* The auto-advances scheduled so far: those that ran and those pending.
AutoAdvances ==
    Cardinality({k \in Where("timer") \cup Where("late") : tLog[k].what = "moveTo"})
        + Len(SelectSeq(tTimers, LAMBDA t : t.call = "moveTo"))

\* Each display schedules at most one auto-advance, and an auto-advance
\* that runs while the tour is on displays the step after the
\* waitForInput step.
AdvanceOncePerDisplay ==
    /\ AutoAdvances + tBlur <= Cardinality(Displays)
    /\ \A k \in Where("timer") :
         tLog[k].what = "moveTo" =>
            /\ tLog[k].at = tStep.index + 1
            /\ k < Len(tLog)
            /\ tLog[k + 1] = TEntry("show", tStep.index + 1, "")

\* The value is set only once the element has lost the focus.
InjectedAfterBlur ==
    \A k \in Where("inject") : \E b \in Where("blur") : b < k

\* The value, with its input and change events, is set when the step is
\* displayed and its element is found.
InjectedOnDisplay ==
    /\ \A k \in Where("inject") :
         /\ k - 1 \in Displays
         /\ tLog[k].what = tStep.inputValue
         /\ SubSeq(tLog, k + 1, k + 2)
              = <<TEntry("event", tStep.index, "input"), TEntry("event", tStep.index, "change")>>
    /\ \A k \in Displays :
         (tStep.waitForInput /\ tStep.found /\ tStep.inputValue # "") =>
            k < Len(tLog) /\ tLog[k + 1].op = "inject"

\* The statement of C38 as it stands: the value provided for a
\* waitForInput step is injected only when the blur observer first fires.
C38_InjectedWhenFocusLost ==
    (tStep # <<>> /\ tStep.waitForInput) =>
        InjectedAfterBlur /\ AdvanceOncePerDisplay

\* C38: for a waitForInput step the value provided is injected, with the
\* input and change events, when the step is displayed; the blur observer
\* is one-shot, each display schedules at most one auto-advance, and the
\* auto-advance displays the step that follows the waitForInput step.
C38_InjectedOnDisplayAdvanceOnBlur ==
    (tStep # <<>> /\ tStep.waitForInput) =>
        InjectedOnDisplay /\ AdvanceOncePerDisplay

\* The value was set when the step came up, the field then lost the focus
\* and the auto-advance displayed the following step.
C38_Witness ==
    /\ tStep # <<>>
    /\ tStep.waitForInput
    /\ ~tStep.nextActions.isArray
    /\ \E k \in Where("inject") : \E b \in Where("blur") : k < b
    /\ AutoAdvances = 1
    /\ tTimers = <<>>
    /\ tBlur = 0
    /\ tCur = tStep.index + 1
====
